---- MODULE Spec2Model ----
(***************************************************************************)
(* Model of the x-research budget ledger (lib/usage.ts), the remote fetch  *)
(* client (lib/api.ts) and the CLI commands that compose them              *)
(* (x-search.ts).                                                          *)
(*                                                                         *)
(* Money is a JavaScript number, an IEEE-754 double.  Every double the     *)
(* ledger handles is either 0 or at least 0.005 > 2^-8, so it is an        *)
(* integer multiple of 2^-60 USD.  A double is modelled by that integer,   *)
(* held as four base-2^20 limbs (least significant first), and every       *)
(* arithmetic result is rounded to 53 significant bits, ties to even, as   *)
(* the hardware does.                                                      *)
(***************************************************************************)
EXTENDS Integers, Sequences, FiniteSets, TLC

\* ------------------------------------------------------------------------
\* Bounds of the model
\* ------------------------------------------------------------------------
MaxRecords == 2
MaxReads == 200
MaxTicks == 1
MaxCapUsd == 1

\* ------------------------------------------------------------------------
\* IEEE-754 double arithmetic on multiples of 2^-60
\* ------------------------------------------------------------------------
LimbBits == 20
LimbBase == 1048576
MantissaBits == 53

BigZero == <<0, 0, 0, 0>>

\* carry propagation over the four limbs
Carry(s) ==
  LET t1 == s[1]
      t2 == s[2] + (t1 \div LimbBase)
      t3 == s[3] + (t2 \div LimbBase)
      t4 == s[4] + (t3 \div LimbBase)
  IN  <<t1 % LimbBase, t2 % LimbBase, t3 % LimbBase, t4 % LimbBase>>

BigAdd(a, b) == Carry(<<a[1] + b[1], a[2] + b[2], a[3] + b[3], a[4] + b[4]>>)

\* exact product of a big natural and an integer 0 <= u < 2048
BigMulSmall(a, u) == Carry(<<a[1] * u, a[2] * u, a[3] * u, a[4] * u>>)

\* -1, 0, 1 as a < b, a = b, a > b
BigCmp(a, b) ==
  IF a[4] # b[4] THEN (IF a[4] < b[4] THEN -1 ELSE 1)
  ELSE IF a[3] # b[3] THEN (IF a[3] < b[3] THEN -1 ELSE 1)
  ELSE IF a[2] # b[2] THEN (IF a[2] < b[2] THEN -1 ELSE 1)
  ELSE IF a[1] # b[1] THEN (IF a[1] < b[1] THEN -1 ELSE 1)
  ELSE 0

RECURSIVE LimbLen(_)
LimbLen(x) == IF x = 0 THEN 0 ELSE 1 + LimbLen(x \div 2)

\* number of significant bits
BitLen(a) ==
  IF a[4] # 0 THEN 3 * LimbBits + LimbLen(a[4])
  ELSE IF a[3] # 0 THEN 2 * LimbBits + LimbLen(a[3])
  ELSE IF a[2] # 0 THEN LimbBits + LimbLen(a[2])
  ELSE LimbLen(a[1])

\* a mod 2^d
LowBits(a, d) ==
  [i \in 1..4 |->
     IF LimbBits * i <= d THEN a[i]
     ELSE IF LimbBits * (i - 1) >= d THEN 0
     ELSE a[i] % (2 ^ (d - LimbBits * (i - 1)))]

\* a - (a mod 2^d)
ClearLow(a, d) == [i \in 1..4 |-> a[i] - LowBits(a, d)[i]]

BigPow2(d) == [i \in 1..4 |-> IF (d \div LimbBits) + 1 = i THEN 2 ^ (d % LimbBits) ELSE 0]

BitAt(a, d) == (a[(d \div LimbBits) + 1] \div (2 ^ (d % LimbBits))) % 2

\* round to nearest double, ties to even
Round53(a) ==
  LET d == BitLen(a) - MantissaBits
  IN  IF d <= 0 THEN a
      ELSE LET c  == BigCmp(LowBits(a, d), BigPow2(d - 1))
               up == c = 1 \/ (c = 0 /\ BitAt(a, d) = 1)
           IN  IF up THEN BigAdd(ClearLow(a, d), BigPow2(d)) ELSE ClearLow(a, d)

\* x + y on doubles
FAdd(x, y) == Round53(BigAdd(x, y))

\* x * u on doubles, u a small non-negative integer
FMulInt(x, u) == Round53(BigMulSmall(x, u))

FGt(x, y) == BigCmp(x, y) = 1
FGe(x, y) == BigCmp(x, y) >= 0

\* the double literals of the source, in units of 2^-60
PostReadPrice == <<922747, 922746, 5242, 0>>
WarnDefault == <<838912, 838860, 838860, 0>>
OneUsd == <<0, 0, 0, 1>>

\* a limit typed as a whole number of dollars, as a double
Usd(n) == BigMulSmall(OneUsd, n)

\* ------------------------------------------------------------------------
\* State
\* ------------------------------------------------------------------------
VARIABLES
  file,         \* data/budget.json: st is "absent", "corrupt" or "ok"; data the document
  now,          \* the wall clock, in minutes
  defTracking,  \* DEFAULT_BUDGET.localTracking, the one object of the running process
  ret,          \* what the last ledger operation was given and what it returned
  seen,         \* the budget loadBudget handed to the last ledger operation
  recLog,       \* history: <<day, postReads>> of every recordUsage call so far
  nTicks,       \* history: number of clock advances so far
  cli,          \* the running x-search.ts command: its position and locals
  cache,        \* the result cache: signature -> stored entry
  paid,         \* history: posts returned by remote requests that succeeded
  nCmds,        \* history: number of commands started so far
  api,          \* the running call of lib/api.ts: its locals, the responses it got
  post,         \* a call of sortBy, dedupe or cmdSearch's sort step: argument and result
  pager,        \* api.search with its requests and responses as separate events
  procs         \* two x-search.ts processes running a search at the same time

ledgerVars == <<file, now, defTracking, ret, seen, recLog, nTicks>>
cliVars == <<cli, cache, paid, nCmds, api, post, pager, procs>>
vars == <<file, now, defTracking, ret, seen, recLog, nTicks, cli, cache, paid, nCmds, api, post, pager, procs>>

MinutesPerDay == 1440

\* the current UTC day, new Date().toISOString().split("T")[0]
Today == now \div MinutesPerDay

RollingWindowDays == 30
Units == {40, 150, 160}
Estimates == {40, 60}

\* ------------------------------------------------------------------------
\* lib/usage.ts
\* ------------------------------------------------------------------------
\* the localTracking block built when the module is loaded on day d
FreshTracking(d) ==
  [today |-> d, todayPostReads |-> 0, todayCost |-> BigZero,
   rollingPostReads |-> 0, rollingCost |-> BigZero, lastReset |-> d]

\* { ...DEFAULT_BUDGET }: a shallow copy, localTracking is the shared object dt
DEFAULT_BUDGET(dt) ==
  [dailyLimitUsd |-> 0, monthlyLimitUsd |-> 0, warnThreshold |-> WarnDefault,
   localTracking |-> dt]

NoFile == [st |-> "absent", data |-> DEFAULT_BUDGET(FreshTracking(0))]

\* TRUE when loadBudget returns the copy of DEFAULT_BUDGET
LoadsDefault(f) == f.st # "ok"

\* loadBudget without the day check: the stored counters are returned as they are
loadBudgetNoRollover(f, d, dt) ==
  IF f.st # "ok" THEN DEFAULT_BUDGET(dt) ELSE f.data

loadBudget(f, d, dt) ==
  IF f.st # "ok" THEN DEFAULT_BUDGET(dt)
  ELSE IF f.data.localTracking.today # d
       THEN [f.data EXCEPT !.localTracking =
               [@ EXCEPT !.today = d, !.todayPostReads = 0, !.todayCost = BigZero]]
       ELSE f.data

saveBudget(b) == [st |-> "ok", data |-> b]

\* recordUsage stamping lastReset with the day of the record
RecordedBudgetStamping(b, postReads, d) ==
  LET cost == FMulInt(PostReadPrice, postReads)
      t0   == b.localTracking
      t1   == IF t0.today # d
              THEN [t0 EXCEPT !.today = d, !.todayPostReads = 0, !.todayCost = BigZero]
              ELSE t0
  IN  [b EXCEPT !.localTracking =
         [t1 EXCEPT !.todayPostReads = @ + postReads,
                    !.todayCost = FAdd(@, cost),
                    !.rollingPostReads = @ + postReads,
                    !.rollingCost = FAdd(@, cost),
                    !.lastReset = d]]

\* recordUsage up to saveBudget: the budget that is written
RecordedBudget(b, postReads, d) ==
  LET cost == FMulInt(PostReadPrice, postReads)
      t0   == b.localTracking
      t1   == IF t0.today # d
              THEN [t0 EXCEPT !.today = d, !.todayPostReads = 0, !.todayCost = BigZero]
              ELSE t0
  IN  [b EXCEPT !.localTracking =
         [t1 EXCEPT !.todayPostReads = @ + postReads,
                    !.todayCost = FAdd(@, cost),
                    !.rollingPostReads = @ + postReads,
                    !.rollingCost = FAdd(@, cost)]]

\* float product dailyLimitUsd * warnThreshold
WarnLevel(limitUsd, warn) == FMulInt(warn, limitUsd)

\* recordUsage warning only above the threshold, not on it
UsageAlertStrict(b) ==
  IF b.dailyLimitUsd > 0 /\ FGe(b.localTracking.todayCost, Usd(b.dailyLimitUsd))
    THEN "daily_exceeded"
  ELSE IF b.dailyLimitUsd > 0
          /\ FGt(b.localTracking.todayCost, WarnLevel(b.dailyLimitUsd, b.warnThreshold))
    THEN "daily_warning"
  ELSE IF b.monthlyLimitUsd > 0 /\ FGe(b.localTracking.rollingCost, Usd(b.monthlyLimitUsd))
    THEN "monthly_exceeded"
  ELSE "none"

\* recordUsage after saveBudget: the message that is returned
UsageAlert(b) ==
  IF b.dailyLimitUsd > 0 /\ FGe(b.localTracking.todayCost, Usd(b.dailyLimitUsd))
    THEN "daily_exceeded"
  ELSE IF b.dailyLimitUsd > 0
          /\ FGe(b.localTracking.todayCost, WarnLevel(b.dailyLimitUsd, b.warnThreshold))
    THEN "daily_warning"
  ELSE IF b.monthlyLimitUsd > 0 /\ FGe(b.localTracking.rollingCost, Usd(b.monthlyLimitUsd))
    THEN "monthly_exceeded"
  ELSE "none"

\* checkBudget denying a request that lands exactly on a cap
BudgetBlockInclusive(b, estimatedPostReads) ==
  LET estimatedCost == FMulInt(PostReadPrice, estimatedPostReads)
  IN  IF b.dailyLimitUsd > 0
         /\ FGe(FAdd(b.localTracking.todayCost, estimatedCost), Usd(b.dailyLimitUsd))
        THEN "blocked_daily"
      ELSE IF b.monthlyLimitUsd > 0
              /\ FGe(FAdd(b.localTracking.rollingCost, estimatedCost), Usd(b.monthlyLimitUsd))
        THEN "blocked_monthly"
      ELSE "allowed"

\* checkBudget on the loaded budget b
BudgetBlock(b, estimatedPostReads) ==
  LET estimatedCost == FMulInt(PostReadPrice, estimatedPostReads)
  IN  IF b.dailyLimitUsd > 0
         /\ FGt(FAdd(b.localTracking.todayCost, estimatedCost), Usd(b.dailyLimitUsd))
        THEN "blocked_daily"
      ELSE IF b.monthlyLimitUsd > 0
              /\ FGt(FAdd(b.localTracking.rollingCost, estimatedCost), Usd(b.monthlyLimitUsd))
        THEN "blocked_monthly"
      ELSE "allowed"

\* ------------------------------------------------------------------------
\* Ledger operations, each a complete call
\* ------------------------------------------------------------------------
\* no command is running
NoCommand ==
  [cmd |-> "idle", pc |-> "idle", quick |-> FALSE, pages |-> 0, maxResults |-> 0,
   page |-> 0, tweets |-> 0, cached |-> FALSE, checked |-> FALSE, sent |-> 0,
   delays |-> 0, accts |-> 0, exit |-> "none"]

\* no call of lib/api.ts is in progress
NoCall ==
  [op |-> "idle", pc |-> "idle", pages |-> 0, page |-> 0, nextToken |-> FALSE,
   allTweets |-> <<>>, resp |-> <<>>, log |-> <<>>,
   err |-> [kind |-> "none", waitSec |-> 0], result |-> "none", tweets |-> <<>>]

\* no call of sortBy or dedupe has been made
NoPost ==
  [op |-> "none", arg |-> "none", given |-> <<>>, input |-> <<>>, out |-> <<>>,
   again |-> <<>>]

\* api.search is not running
NoPager ==
  [pc |-> "idle", pages |-> 0, page |-> 0, nextToken |-> 0, inFlight |-> 0,
   events |-> <<>>]

\* a process that has not been started
NoProc ==
  [pc |-> "idle", pages |-> 0, units |-> 0, loaded |-> DEFAULT_BUDGET(FreshTracking(0)),
   def |-> FreshTracking(0), admitted |-> FALSE, alone |-> TRUE]

NoProcs == [i \in {1, 2} |-> NoProc]

Init ==
  /\ file = NoFile
  /\ now = 0
  /\ defTracking = FreshTracking(0)
  /\ ret = [op |-> "start", arg |-> 0, result |-> "none"]
  /\ seen = DEFAULT_BUDGET(FreshTracking(0))
  /\ recLog = <<>>
  /\ nTicks = 0
  /\ cli = NoCommand
  /\ cache = <<>>
  /\ paid = 0
  /\ nCmds = 0
  /\ api = NoCall
  /\ post = NoPost
  /\ pager = NoPager
  /\ procs = NoProcs

\* a new invocation of the CLI: the module is loaded again
NewProcess ==
  /\ defTracking # FreshTracking(Today)
  /\ defTracking' = FreshTracking(Today)
  /\ ret' = [op |-> "start", arg |-> 0, result |-> "none"]
  /\ UNCHANGED <<file, now, seen, recLog, nTicks>>
  /\ UNCHANGED cliVars

\* the clock moves on by d days
Tick(d) ==
  /\ now' = now + d * MinutesPerDay
  /\ nTicks' = nTicks + 1
  /\ ret' = [op |-> "tick", arg |-> d, result |-> "none"]
  /\ UNCHANGED <<file, defTracking, seen, recLog>>
  /\ UNCHANGED cliVars

\* midnight UTC passes
DayStep ==
  /\ nTicks < MaxTicks
  /\ Tick(1)

\* more than a rolling window passes
WindowStep ==
  /\ nTicks < MaxTicks
  /\ Tick(RollingWindowDays + 1)

\* one call of recordUsage(postReads)
RecordStep(postReads) ==
  LET b  == loadBudget(file, Today, defTracking)
      nb == RecordedBudget(b, postReads, Today)
  IN  /\ file' = saveBudget(nb)
      /\ defTracking' = IF LoadsDefault(file) THEN nb.localTracking ELSE defTracking
      /\ seen' = b
      /\ ret' = [op |-> "recordUsage", arg |-> postReads, result |-> UsageAlert(nb)]

RecordUsage(postReads) ==
  /\ loadBudget(file, Today, defTracking).localTracking.rollingPostReads + postReads <= MaxReads
  /\ RecordStep(postReads)
  /\ UNCHANGED <<now, recLog, nTicks>>
  /\ UNCHANGED cliVars

\* the same call, with the history of calls kept
RecordLogged(postReads) ==
  /\ Len(recLog) < MaxRecords
  /\ RecordStep(postReads)
  /\ recLog' = Append(recLog, <<Today, postReads>>)
  /\ UNCHANGED <<now, nTicks>>
  /\ UNCHANGED cliVars

\* checkBudget writing back the budget it loaded
CheckBudgetSaving(estimatedPostReads) ==
  /\ LET b == loadBudget(file, Today, defTracking)
     IN  /\ seen' = b
         /\ file' = saveBudget(b)
         /\ ret' = [op |-> "checkBudget", arg |-> estimatedPostReads,
                    result |-> BudgetBlock(b, estimatedPostReads)]
  /\ UNCHANGED <<now, defTracking, recLog, nTicks>>
  /\ UNCHANGED cliVars

CheckBudget(estimatedPostReads) ==
  /\ LET b == loadBudget(file, Today, defTracking)
     IN  /\ seen' = b
         /\ ret' = [op |-> "checkBudget", arg |-> estimatedPostReads,
                    result |-> BudgetBlock(b, estimatedPostReads)]
  /\ UNCHANGED <<file, now, defTracking, recLog, nTicks>>
  /\ UNCHANGED cliVars

\* set-daily writing the new cap into a default budget instead of the loaded one
SetDailyOnDefault(isNum, limit) ==
  /\ LET b == loadBudget(file, Today, defTracking)
     IN  /\ seen' = b
         /\ IF ~isNum \/ limit < 0
              THEN /\ file' = file
                   /\ ret' = [op |-> "setDaily", arg |-> limit, result |-> "usage_error"]
              ELSE /\ file' = saveBudget([DEFAULT_BUDGET(b.localTracking)
                                            EXCEPT !.dailyLimitUsd = limit])
                   /\ ret' = [op |-> "setDaily", arg |-> limit, result |-> "ok"]
  /\ UNCHANGED <<now, defTracking, recLog, nTicks>>
  /\ UNCHANGED cliVars

\* x-search.ts, cmdUsage: usage budget set-daily <amount>
\* isNum is FALSE when parseFloat yields NaN
SetDaily(isNum, limit) ==
  /\ LET b == loadBudget(file, Today, defTracking)
     IN  /\ seen' = b
         /\ IF ~isNum \/ limit < 0
              THEN /\ file' = file
                   /\ ret' = [op |-> "setDaily", arg |-> limit, result |-> "usage_error"]
              ELSE /\ file' = saveBudget([b EXCEPT !.dailyLimitUsd = limit])
                   /\ ret' = [op |-> "setDaily", arg |-> limit, result |-> "ok"]
  /\ UNCHANGED <<now, defTracking, recLog, nTicks>>
  /\ UNCHANGED cliVars

\* x-search.ts, cmdUsage: usage budget set-monthly <amount>
SetMonthly(isNum, limit) ==
  /\ LET b == loadBudget(file, Today, defTracking)
     IN  /\ seen' = b
         /\ IF ~isNum \/ limit < 0
              THEN /\ file' = file
                   /\ ret' = [op |-> "setMonthly", arg |-> limit, result |-> "usage_error"]
              ELSE /\ file' = saveBudget([b EXCEPT !.monthlyLimitUsd = limit])
                   /\ ret' = [op |-> "setMonthly", arg |-> limit, result |-> "ok"]
  /\ UNCHANGED <<now, defTracking, recLog, nTicks>>
  /\ UNCHANGED cliVars

\* a reset that goes back to the default budget, caps included
ResetBudgetToDefault ==
  /\ LET b == loadBudget(file, Today, defTracking)
     IN  /\ seen' = b
         /\ file' = saveBudget(DEFAULT_BUDGET(FreshTracking(Today)))
  /\ ret' = [op |-> "reset", arg |-> 0, result |-> "ok"]
  /\ UNCHANGED <<now, defTracking, recLog, nTicks>>
  /\ UNCHANGED cliVars

\* x-search.ts, cmdUsage: usage budget reset
ResetBudget ==
  /\ LET b == loadBudget(file, Today, defTracking)
     IN  /\ seen' = b
         /\ file' = saveBudget([b EXCEPT !.localTracking = FreshTracking(Today)])
  /\ ret' = [op |-> "reset", arg |-> 0, result |-> "ok"]
  /\ UNCHANGED <<now, defTracking, recLog, nTicks>>
  /\ UNCHANGED cliVars

\* x-search.ts, cmdUsage: usage budget (status display)
BudgetStatus ==
  /\ seen' = loadBudget(file, Today, defTracking)
  /\ ret' = [op |-> "status", arg |-> 0, result |-> "ok"]
  /\ UNCHANGED <<file, now, defTracking, recLog, nTicks>>
  /\ UNCHANGED cliVars

LimitArgs == (-1)..MaxCapUsd

Next ==
  \/ NewProcess
  \/ DayStep
  \/ \E u \in Units : RecordUsage(u)
  \/ \E e \in Estimates : CheckBudget(e)
  \/ \E n \in BOOLEAN, x \in LimitArgs : SetDaily(n, x)
  \/ \E n \in BOOLEAN, x \in LimitArgs : SetMonthly(n, x)
  \/ ResetBudget
  \/ BudgetStatus

Spec == Init /\ [][Next]_vars

\* the calls that write the ledger, over a change of day
NextFrame ==
  \/ NewProcess
  \/ DayStep
  \/ \E u \in Units : RecordUsage(u)
  \/ \E n \in BOOLEAN, x \in LimitArgs : SetDaily(n, x)
  \/ \E n \in BOOLEAN, x \in LimitArgs : SetMonthly(n, x)
  \/ ResetBudget

SpecFrame == Init /\ [][NextFrame]_vars

\* recordUsage calls spread over days, with their history kept
NextRec ==
  \/ NewProcess
  \/ DayStep
  \/ WindowStep
  \/ \E u \in Units : RecordLogged(u)
  \/ \E n \in BOOLEAN, x \in LimitArgs : SetDaily(n, x)

SpecRec == Init /\ [][NextRec]_vars

\* data/budget.json is deleted, or overwritten with text that is not JSON,
\* from outside the program
FileLost(st) ==
  /\ file.st = "ok"
  /\ file' = [st |-> st, data |-> NoFile.data]
  /\ ret' = [op |-> "fileLost", arg |-> 0, result |-> "none"]
  /\ UNCHANGED <<now, defTracking, seen, recLog, nTicks>>
  /\ UNCHANGED cliVars

\* ledger calls of one or more processes, with the file lost in between
NextLoad ==
  \/ NewProcess
  \/ \E u \in Units : RecordUsage(u)
  \/ \E e \in Estimates : CheckBudget(e)
  \/ BudgetStatus
  \/ \E st \in {"absent", "corrupt"} : FileLost(st)

SpecLoad == Init /\ [][NextLoad]_vars

\* saveBudget when writeFileSync may throw: the file is replaced only when
\* the write goes through
TrySave(f, b, writable) == IF writable THEN saveBudget(b) ELSE f

\* recordUsage catching the error of saveBudget and going on to the alerts
RecordUsageQuiet(postReads, writable) ==
  /\ loadBudget(file, Today, defTracking).localTracking.rollingPostReads + postReads <= MaxReads
  /\ LET b  == loadBudget(file, Today, defTracking)
         nb == RecordedBudget(b, postReads, Today)
     IN  /\ file' = TrySave(file, nb, writable)
         /\ defTracking' = IF LoadsDefault(file) THEN nb.localTracking ELSE defTracking
         /\ seen' = b
         /\ ret' = [op |-> "recordUsage", arg |-> postReads, result |-> UsageAlert(nb)]
  /\ UNCHANGED <<now, recLog, nTicks>>
  /\ UNCHANGED cliVars

\* one call of recordUsage(postReads) on a disk that takes the write or not:
\* the error thrown by writeFileSync leaves recordUsage before the alerts
RecordUsageIO(postReads, writable) ==
  /\ loadBudget(file, Today, defTracking).localTracking.rollingPostReads + postReads <= MaxReads
  /\ LET b  == loadBudget(file, Today, defTracking)
         nb == RecordedBudget(b, postReads, Today)
     IN  /\ file' = TrySave(file, nb, writable)
         /\ defTracking' = IF LoadsDefault(file) THEN nb.localTracking ELSE defTracking
         /\ seen' = b
         /\ ret' = [op |-> "recordUsage", arg |-> postReads,
                    result |-> IF writable THEN UsageAlert(nb) ELSE "io_error"]
  /\ UNCHANGED <<now, recLog, nTicks>>
  /\ UNCHANGED cliVars

\* usage budget set-daily <amount>: the error of saveBudget reaches
\* main().catch before the confirmation is printed
SetDailyIO(limit, writable) ==
  /\ LET b == loadBudget(file, Today, defTracking)
     IN  /\ seen' = b
         /\ file' = TrySave(file, [b EXCEPT !.dailyLimitUsd = limit], writable)
  /\ ret' = [op |-> "setDaily", arg |-> limit,
             result |-> IF writable THEN "ok" ELSE "io_error"]
  /\ UNCHANGED <<now, defTracking, recLog, nTicks>>
  /\ UNCHANGED cliVars

\* usage budget set-monthly <amount>, likewise
SetMonthlyIO(limit, writable) ==
  /\ LET b == loadBudget(file, Today, defTracking)
     IN  /\ seen' = b
         /\ file' = TrySave(file, [b EXCEPT !.monthlyLimitUsd = limit], writable)
  /\ ret' = [op |-> "setMonthly", arg |-> limit,
             result |-> IF writable THEN "ok" ELSE "io_error"]
  /\ UNCHANGED <<now, defTracking, recLog, nTicks>>
  /\ UNCHANGED cliVars

\* usage budget reset, likewise
ResetBudgetIO(writable) ==
  /\ LET b == loadBudget(file, Today, defTracking)
     IN  /\ seen' = b
         /\ file' = TrySave(file, [b EXCEPT !.localTracking = FreshTracking(Today)], writable)
  /\ ret' = [op |-> "reset", arg |-> 0, result |-> IF writable THEN "ok" ELSE "io_error"]
  /\ UNCHANGED <<now, defTracking, recLog, nTicks>>
  /\ UNCHANGED cliVars

\* the writing ledger operations on a disk that may refuse any write
NextSave ==
  \/ NewProcess
  \/ \E u \in Units, w \in BOOLEAN : RecordUsageIO(u, w)
  \/ \E x \in 0..MaxCapUsd, w \in BOOLEAN : SetDailyIO(x, w)
  \/ \E x \in 0..MaxCapUsd, w \in BOOLEAN : SetMonthlyIO(x, w)
  \/ \E w \in BOOLEAN : ResetBudgetIO(w)

SpecSave == Init /\ [][NextSave]_vars

\* ------------------------------------------------------------------------
\* lib/api.ts and x-search.ts: the commands, one remote request per step
\* ------------------------------------------------------------------------
MaxCommands == 2
MaxPagesArg == 2
MaxAccounts == 1

SearchPagesCap == 5
SearchPageSize == 100
MinPageSize == 10
ProfileCount == 20
WatchlistCount == 5
NormalTtl == 15
QuickTtl == 60

Min(a, b) == IF a < b THEN a ELSE b
Max(a, b) == IF a > b THEN a ELSE b

PagesArgs == 1..MaxPagesArg

\* api.search: maxResults clamped to the endpoint's range
ClampMaxResults(m) == Max(Min(m, SearchPageSize), MinPageSize)

\* numbers of posts one page of at most m results may carry
PageCounts(m) == {0, MinPageSize, m}

\* lib/cache.ts get: the stored entry when it is younger than ttl
CacheHit(c, sig, ttl, t) == sig \in DOMAIN c /\ t - c[sig].at < ttl

\* lib/cache.ts set: the entry for sig is replaced, stamped with the time t
CacheSet(c, sig, n, t) ==
  [k \in DOMAIN c \cup {sig} |-> IF k = sig THEN [n |-> n, at |-> t] ELSE c[k]]

\* history: the entry for sig marked with cacheTtlMs of the command that wrote
\* it, a value cmdSearch computes and does not hand to cache.set
WrittenUnder(c, sig, ttl) ==
  [c EXCEPT ![sig] = [n |-> @.n, at |-> @.at, wttl |-> ttl]]

Running(c) == cli.cmd = c /\ cli.pc \notin {"idle", "done"}
CanStart == cli.pc \in {"idle", "done"} /\ nCmds < MaxCommands

\* the process is started: the modules are loaded, main() dispatches
Launch(c) ==
  /\ nCmds' = nCmds + 1
  /\ defTracking' = FreshTracking(Today)
  /\ ret' = [op |-> "start", arg |-> 0, result |-> "none"]
  /\ cli' = c
  /\ UNCHANGED <<file, now, seen, recLog, nTicks, cache, paid, api, post, pager, procs>>

\* the process ends with the given outcome
Exit(c, code) == [c EXCEPT !.pc = "done", !.exit = code]

\* cmdSearch up to the budget check: flags parsed, quick mode overrides
SearchStart(pagesArg, quick) ==
  /\ CanStart
  /\ Launch([NoCommand EXCEPT !.cmd = "search", !.pc = "checkBudget", !.quick = quick,
            !.pages = IF quick THEN 1 ELSE Min(pagesArg, SearchPagesCap),
            !.maxResults = ClampMaxResults(SearchPageSize)])

\* cmdSearch treating a blocked budget as a warning and going on
SearchCheckBudgetLenient ==
  /\ Running("search") /\ cli.pc = "checkBudget"
  /\ LET b == loadBudget(file, Today, defTracking)
         r == BudgetBlock(b, cli.pages * SearchPageSize)
     IN  /\ seen' = b
         /\ ret' = [op |-> "checkBudget", arg |-> cli.pages * SearchPageSize, result |-> r]
         /\ cli' = [cli EXCEPT !.pc = "cacheGet", !.checked = TRUE]
  /\ UNCHANGED <<file, now, defTracking, recLog, nTicks, cache, paid, nCmds, api, post, pager, procs>>

\* cmdSearch: usage.checkBudget(pages * 100), exit(1) when blocked
SearchCheckBudget ==
  /\ Running("search") /\ cli.pc = "checkBudget"
  /\ LET b == loadBudget(file, Today, defTracking)
         r == BudgetBlock(b, cli.pages * SearchPageSize)
     IN  /\ seen' = b
         /\ ret' = [op |-> "checkBudget", arg |-> cli.pages * SearchPageSize, result |-> r]
         /\ cli' = IF r # "allowed" THEN Exit(cli, "blocked")
                   ELSE [cli EXCEPT !.pc = "cacheGet", !.checked = TRUE]
  /\ UNCHANGED <<file, now, defTracking, recLog, nTicks, cache, paid, nCmds, api, post, pager, procs>>

\* cmdSearch taking any stored entry, whatever its age
SearchCacheGetAnyAge ==
  /\ Running("search") /\ cli.pc = "cacheGet"
  /\ cli' = IF cli.pages \in DOMAIN cache
            THEN [cli EXCEPT !.pc = "output", !.cached = TRUE, !.tweets = cache[cli.pages].n]
            ELSE [cli EXCEPT !.pc = "page"]
  /\ UNCHANGED <<cache, paid, nCmds, api, post, pager, procs>>
  /\ UNCHANGED ledgerVars

\* cmdSearch: cache.get(query, cacheParams, cacheTtlMs)
SearchCacheGet ==
  /\ Running("search") /\ cli.pc = "cacheGet"
  /\ cli' = IF CacheHit(cache, cli.pages, IF cli.quick THEN QuickTtl ELSE NormalTtl, now)
            THEN [cli EXCEPT !.pc = "output", !.cached = TRUE, !.tweets = cache[cli.pages].n]
            ELSE [cli EXCEPT !.pc = "page"]
  /\ UNCHANGED <<cache, paid, nCmds, api, post, pager, procs>>
  /\ UNCHANGED ledgerVars

\* where a command continues when api.search has returned
AfterSearch(c) ==
  IF c.cmd = "search" THEN [c EXCEPT !.pc = "cacheSet"]
  ELSE IF c.cmd = "thread" THEN [c EXCEPT !.pc = "root"]
  ELSE IF c.cmd = "profile" THEN [c EXCEPT !.pc = "record"]
  ELSE [c EXCEPT !.pc = "wlNext", !.accts = @ - 1]

\* where a command continues when a request inside api.* has thrown
AfterThrow(c) ==
  IF c.cmd = "watchlist" THEN [c EXCEPT !.pc = "wlNext", !.accts = @ - 1]
  ELSE Exit(c, "error")

\* the page loop going one iteration past the pages it was given
SearchPageOverrun(n, hasNext) ==
  /\ cli.pc = "page"
  /\ n \in PageCounts(cli.maxResults)
  /\ LET c == [cli EXCEPT !.sent = @ + 1, !.tweets = @ + n, !.page = @ + 1,
                          !.delays = IF hasNext /\ cli.page < cli.pages - 1 THEN @ + 1 ELSE @]
     IN  cli' = IF ~hasNext \/ c.page > c.pages THEN AfterSearch(c) ELSE c
  /\ paid' = paid + n
  /\ UNCHANGED <<cache, nCmds, api, post, pager, procs>>
  /\ UNCHANGED ledgerVars

\* api.search: one iteration of the page loop whose apiGet succeeds with
\* n posts and, when hasNext, a next_token
SearchPage(n, hasNext) ==
  /\ cli.pc = "page"
  /\ n \in PageCounts(cli.maxResults)
  /\ LET c == [cli EXCEPT !.sent = @ + 1, !.tweets = @ + n, !.page = @ + 1,
                          !.delays = IF hasNext /\ cli.page < cli.pages - 1 THEN @ + 1 ELSE @]
     IN  cli' = IF ~hasNext \/ c.page >= c.pages THEN AfterSearch(c) ELSE c
  /\ paid' = paid + n
  /\ UNCHANGED <<cache, nCmds, api, post, pager, procs>>
  /\ UNCHANGED ledgerVars

\* api.search: an iteration whose apiGet throws (429 or another non-2xx)
SearchPageFail ==
  /\ cli.pc = "page"
  /\ cli' = AfterThrow([cli EXCEPT !.sent = @ + 1])
  /\ UNCHANGED <<cache, paid, nCmds, api, post, pager, procs>>
  /\ UNCHANGED ledgerVars

\* cmdSearch: cache.set(query, cacheParams, tweets)
SearchCacheSet ==
  /\ Running("search") /\ cli.pc = "cacheSet"
  /\ cache' = WrittenUnder(CacheSet(cache, cli.pages, cli.tweets, now), cli.pages,
                         IF cli.quick THEN QuickTtl ELSE NormalTtl)
  /\ cli' = [cli EXCEPT !.pc = "output"]
  /\ UNCHANGED <<paid, nCmds, api, post, pager, procs>>
  /\ UNCHANGED ledgerVars

\* cmdSearch: filter, sort, dedupe, print, save
SearchOutput ==
  /\ Running("search") /\ cli.pc = "output"
  /\ cli' = [cli EXCEPT !.pc = "record"]
  /\ UNCHANGED <<cache, paid, nCmds, api, post, pager, procs>>
  /\ UNCHANGED ledgerVars

\* cmdSearch recording the result's size whether it was cached or fetched
SearchRecordAlways ==
  /\ Running("search") /\ cli.pc = "record"
  /\ RecordStep(cli.tweets)
  /\ cli' = Exit(cli, "ok")
  /\ UNCHANGED <<now, recLog, nTicks, cache, paid, nCmds, api, post, pager, procs>>

\* cmdSearch: if (!cached) usage.recordUsage(rawTweetCount)
SearchRecord ==
  /\ Running("search") /\ cli.pc = "record"
  /\ IF cli.cached
       THEN UNCHANGED <<file, defTracking, seen, ret>>
       ELSE RecordStep(cli.tweets)
  /\ cli' = Exit(cli, "ok")
  /\ UNCHANGED <<now, recLog, nTicks, cache, paid, nCmds, api, post, pager, procs>>

\* cmdThread up to api.thread: no budget check is made
ThreadStart(pagesArg) ==
  /\ CanStart
  /\ Launch([NoCommand EXCEPT !.cmd = "thread", !.pc = "page",
            !.pages = Min(pagesArg, SearchPagesCap),
            !.maxResults = ClampMaxResults(SearchPageSize)])

\* api.thread: the root tweet lookup, whose failure is swallowed
ThreadRoot(outcome) ==
  /\ Running("thread") /\ cli.pc = "root"
  /\ cli' = [cli EXCEPT !.pc = "record", !.sent = @ + 1,
                        !.tweets = IF outcome = "found" THEN @ + 1 ELSE @]
  /\ paid' = IF outcome = "found" THEN paid + 1 ELSE paid
  /\ UNCHANGED <<cache, nCmds, api, post, pager, procs>>
  /\ UNCHANGED ledgerVars

\* cmdThread: usage.recordUsage(tweets.length + 1)
ThreadRecord ==
  /\ Running("thread") /\ cli.pc = "record"
  /\ RecordStep(cli.tweets + 1)
  /\ cli' = Exit(cli, "ok")
  /\ UNCHANGED <<now, recLog, nTicks, cache, paid, nCmds, api, post, pager, procs>>

\* cmdProfile up to api.profile: no budget check is made
ProfileStart ==
  /\ CanStart
  /\ Launch([NoCommand EXCEPT !.cmd = "profile", !.pc = "userLookup", !.pages = 1,
            !.maxResults = ClampMaxResults(ProfileCount)])

\* api.profile: the user lookup; found, it is followed by the rate delay
UserLookup(found) ==
  /\ cli.pc = "userLookup"
  /\ cli' = IF found THEN [cli EXCEPT !.pc = "page", !.sent = @ + 1, !.delays = @ + 1]
            ELSE AfterThrow([cli EXCEPT !.sent = @ + 1])
  /\ UNCHANGED <<cache, paid, nCmds, api, post, pager, procs>>
  /\ UNCHANGED ledgerVars

\* cmdProfile: usage.recordUsage(tweets.length)
ProfileRecord ==
  /\ Running("profile") /\ cli.pc = "record"
  /\ RecordStep(cli.tweets)
  /\ cli' = Exit(cli, "ok")
  /\ UNCHANGED <<now, recLog, nTicks, cache, paid, nCmds, api, post, pager, procs>>

\* cmdTweet up to api.getTweet
TweetStart ==
  /\ CanStart
  /\ Launch([NoCommand EXCEPT !.cmd = "tweet", !.pc = "getTweet"])

\* cmdTweet: api.getTweet and the output; nothing is recorded
TweetGet(outcome) ==
  /\ Running("tweet") /\ cli.pc = "getTweet"
  /\ cli' = Exit([cli EXCEPT !.sent = @ + 1,
                             !.tweets = IF outcome = "found" THEN 1 ELSE 0],
                 IF outcome = "error" THEN "error" ELSE "ok")
  /\ paid' = IF outcome = "found" THEN paid + 1 ELSE paid
  /\ UNCHANGED <<cache, nCmds, api, post, pager, procs>>
  /\ UNCHANGED ledgerVars

\* cmdWatchlist, sub "check", over a watchlist of accts accounts
WatchlistStart(accts) ==
  /\ CanStart
  /\ Launch([NoCommand EXCEPT !.cmd = "watchlist", !.pc = "wlNext", !.accts = accts])

\* cmdWatchlist: the head of the loop over the accounts; nothing is recorded
WatchlistNext ==
  /\ Running("watchlist") /\ cli.pc = "wlNext"
  /\ cli' = IF cli.accts = 0 THEN Exit(cli, "ok")
            ELSE [cli EXCEPT !.pc = "userLookup", !.pages = 1, !.page = 0, !.tweets = 0,
                             !.maxResults = ClampMaxResults(WatchlistCount)]
  /\ UNCHANGED <<cache, paid, nCmds, api, post, pager, procs>>
  /\ UNCHANGED ledgerVars

\* usage budget set-daily, run between two commands
CmdSetDaily(isNum, limit) ==
  /\ cli.pc \in {"idle", "done"}
  /\ SetDaily(isNum, limit)

RootOutcomes == {"found", "none", "error"}

NextCli ==
  \/ \E p \in PagesArgs, q \in BOOLEAN : SearchStart(p, q)
  \/ SearchCheckBudget
  \/ SearchCacheGet
  \/ \E n \in 0..SearchPageSize, t \in BOOLEAN : SearchPage(n, t)
  \/ SearchPageFail
  \/ SearchCacheSet
  \/ SearchOutput
  \/ SearchRecord
  \/ \E p \in PagesArgs : ThreadStart(p)
  \/ \E o \in RootOutcomes : ThreadRoot(o)
  \/ ThreadRecord
  \/ ProfileStart
  \/ \E f \in BOOLEAN : UserLookup(f)
  \/ ProfileRecord
  \/ TweetStart
  \/ \E o \in RootOutcomes : TweetGet(o)
  \/ \E k \in 0..MaxAccounts : WatchlistStart(k)
  \/ WatchlistNext
  \/ \E n \in BOOLEAN, x \in LimitArgs : CmdSetDaily(n, x)

SpecCli == Init /\ [][NextCli]_vars

\* time passes between two invocations: a normal TTL's worth of minutes, after
\* which an entry is stale for a normal search and fresh for a quick one
CacheAgeStep ==
  /\ CanStart
  /\ nTicks < MaxTicks
  /\ now' = now + NormalTtl
  /\ nTicks' = nTicks + 1
  /\ ret' = [op |-> "tick", arg |-> 0, result |-> "none"]
  /\ UNCHANGED <<file, defTracking, seen, recLog>>
  /\ UNCHANGED cliVars

\* a quick TTL's worth of minutes passes between two invocations, with an
\* entry in the cache to age
CacheExpiryStep ==
  /\ CanStart
  /\ cache # <<>>
  /\ nTicks < MaxTicks
  /\ now' = now + QuickTtl
  /\ nTicks' = nTicks + 1
  /\ ret' = [op |-> "tick", arg |-> 0, result |-> "none"]
  /\ UNCHANGED <<file, defTracking, seen, recLog>>
  /\ UNCHANGED cliVars

\* usage budget set-daily <amount>, run before a search
SearchSetDaily(limit) ==
  /\ CanStart
  /\ SetDaily(TRUE, limit)

\* search commands only, with the clock and the daily cap moving between them
NextSearch ==
  \/ \E p \in PagesArgs, q \in BOOLEAN : SearchStart(p, q)
  \/ SearchCheckBudget
  \/ SearchCacheGet
  \/ \E n \in 0..SearchPageSize, t \in BOOLEAN : SearchPage(n, t)
  \/ SearchPageFail
  \/ SearchCacheSet
  \/ SearchOutput
  \/ SearchRecord
  \/ CacheAgeStep
  \/ CacheExpiryStep
  \/ \E x \in 0..MaxCapUsd : SearchSetDaily(x)

SpecSearch == Init /\ [][NextSearch]_vars

\* usage budget set-monthly <amount>, run before a search
SearchSetMonthly(limit) ==
  /\ CanStart
  /\ SetMonthly(TRUE, limit)

\* searches of one process after another, with both caps set in between
NextSeq ==
  \/ \E p \in PagesArgs, q \in BOOLEAN : SearchStart(p, q)
  \/ SearchCheckBudget
  \/ SearchCacheGet
  \/ \E n \in 0..SearchPageSize, t \in BOOLEAN : SearchPage(n, t)
  \/ SearchPageFail
  \/ SearchCacheSet
  \/ SearchOutput
  \/ SearchRecord
  \/ \E x \in 0..MaxCapUsd : SearchSetDaily(x)
  \/ \E x \in 0..MaxCapUsd : SearchSetMonthly(x)

SpecSeq == Init /\ [][NextSeq]_vars

\* ------------------------------------------------------------------------
\* lib/api.ts, record by record: one call of search, getListTweets, thread or
\* profile, and the responses the endpoint gives it
\* ------------------------------------------------------------------------
MaxResetAhead == 2

SearchPagesDefault == 1
ThreadPagesDefault == 2
RateLimitFallbackSec == 60
MinWaitSec == 1
RootId == 0

nonApiVars ==
  <<file, now, defTracking, ret, seen, recLog, nTicks, cli, cache, paid, nCmds,
    post, pager, procs>>

\* the pages argument of a call; 0 stands for an option that was not given
ApiPagesArgs == 0..MaxPagesArg

\* the posts one page may carry, as tweet ids
PageBodies == {<<>>, <<1>>, <<2, 3>>}

\* Math.floor(Date.now() / 1000)
NowSec == now * 60

NoHeader == [present |-> FALSE, value |-> 0]

\* x-rate-limit-reset: missing, or an epoch second, the current one included
ResetHeaders ==
  {NoHeader} \cup {[present |-> TRUE, value |-> v] : v \in 0..MaxResetAhead}

\* opts.pages || d
PagesOrDefault(p, d) == IF p = 0 THEN d ELSE p

\* apiGet on 429, with the difference to the reset time taken as it is
WaitSecNoFloor(h) ==
  IF h.present THEN h.value - NowSec ELSE RateLimitFallbackSec

\* apiGet on 429: the seconds named in the error
WaitSec(h) ==
  IF h.present THEN Max(h.value - NowSec, MinWaitSec) ELSE RateLimitFallbackSec

\* one response of the endpoint, as the request at position at received it
Response(at, kind, body, token, h) ==
  [at |-> at, kind |-> kind, body |-> body, token |-> token, header |-> h]

\* fetch was called and its response r arrived
Received(a, r) == [a EXCEPT !.log = Append(@, "get"), !.resp = Append(@, r)]

\* the call returns its list
Return(a) == [a EXCEPT !.pc = "done", !.result = "ok", !.tweets = a.allTweets]

\* the call rejects with the error e
Throw(a, e) == [a EXCEPT !.pc = "done", !.result = e.kind, !.err = e, !.tweets = <<>>]

CallIdle == api.pc \in {"idle", "done"}

\* api.search(query, { pages })
SearchCall(p) ==
  /\ CallIdle
  /\ api' = [NoCall EXCEPT !.op = "search", !.pc = "loop",
                           !.pages = PagesOrDefault(p, SearchPagesDefault)]
  /\ UNCHANGED nonApiVars

\* api.getListTweets(listId, { pages })
ListCall(p) ==
  /\ CallIdle
  /\ api' = [NoCall EXCEPT !.op = "list", !.pc = "loop",
                           !.pages = PagesOrDefault(p, SearchPagesDefault)]
  /\ UNCHANGED nonApiVars

\* api.thread(conversationId, { pages }): the conversation search comes first
ThreadCall(p) ==
  /\ CallIdle
  /\ api' = [NoCall EXCEPT !.op = "thread", !.pc = "loop",
                           !.pages = PagesOrDefault(p, ThreadPagesDefault)]
  /\ UNCHANGED nonApiVars

\* api.profile(username): the user lookup comes first
ProfileCall ==
  /\ CallIdle
  /\ api' = [NoCall EXCEPT !.op = "profile", !.pc = "user", !.pages = SearchPagesDefault]
  /\ UNCHANGED nonApiVars

\* where the call continues when the page loop is left
LoopExit(a) == IF a.op = "thread" THEN [a EXCEPT !.pc = "root"] ELSE Return(a)

\* the page loop sleeping after every page that carries a token
LoopPageSleepAlways(kind, body, hasToken) ==
  /\ api.pc = "loop"
  /\ kind = "errorObject" => (body = <<>> /\ ~hasToken)
  /\ LET a1 == [Received(api, Response("loop", kind, body, hasToken, NoHeader))
                  EXCEPT !.allTweets = @ \o body, !.nextToken = hasToken]
     IN  api' = IF ~hasToken THEN LoopExit(a1)
                ELSE LET a2 == [a1 EXCEPT !.log = Append(@, "sleep")]
                         a3 == [a2 EXCEPT !.page = @ + 1]
                     IN  IF a3.page < a3.pages THEN a3 ELSE LoopExit(a3)
  /\ UNCHANGED nonApiVars

\* one iteration of the page loop whose apiGet returns a 2xx body: a page of
\* posts, with or without next_token, or an error object (no data, no meta)
LoopPage(kind, body, hasToken) ==
  /\ api.pc = "loop"
  /\ kind = "errorObject" => (body = <<>> /\ ~hasToken)
  /\ LET a1 == [Received(api, Response("loop", kind, body, hasToken, NoHeader))
                  EXCEPT !.allTweets = @ \o body, !.nextToken = hasToken]
     IN  api' = IF ~hasToken THEN LoopExit(a1)
                ELSE LET a2 == IF a1.page < a1.pages - 1
                                 THEN [a1 EXCEPT !.log = Append(@, "sleep")]
                                 ELSE a1
                         a3 == [a2 EXCEPT !.page = @ + 1]
                     IN  IF a3.page < a3.pages THEN a3 ELSE LoopExit(a3)
  /\ UNCHANGED nonApiVars

\* apiGet answered 429 inside search or the user lookup: the error leaves the call
ApiGetRateLimited(h) ==
  /\ api.pc \in {"loop", "user"}
  /\ api' = Throw(Received(api, Response(api.pc, "429", <<>>, FALSE, h)),
                  [kind |-> "rate_limited", waitSec |-> WaitSec(h)])
  /\ UNCHANGED nonApiVars

\* apiGet answered another non-2xx status
ApiGetHttpError ==
  /\ api.pc \in {"loop", "user"}
  /\ api' = Throw(Received(api, Response(api.pc, "http", <<>>, FALSE, NoHeader)),
                  [kind |-> "http_error", waitSec |-> 0])
  /\ UNCHANGED nonApiVars

RootKinds == {"page", "errorObject", "429", "http"}

\* the root tweet put behind the conversation
RootLookupAppend(kind, h) ==
  /\ api.pc = "root"
  /\ kind # "429" => h = NoHeader
  /\ LET a1 == Received(api, Response("root", kind,
                                      IF kind = "page" THEN <<RootId>> ELSE <<>>, FALSE, h))
     IN  api' = IF kind = "page"
                  THEN Return([a1 EXCEPT !.allTweets = @ \o <<RootId>>])
                ELSE IF kind = "429"
                  THEN Return([a1 EXCEPT !.err = [kind |-> "rate_limited",
                                                  waitSec |-> WaitSec(h)]])
                ELSE IF kind = "http"
                  THEN Return([a1 EXCEPT !.err = [kind |-> "http_error", waitSec |-> 0]])
                ELSE Return(a1)
  /\ UNCHANGED nonApiVars

\* api.thread: the root tweet lookup inside try/catch; a root that resolves is
\* put in front, an error of apiGet is dropped
RootLookup(kind, h) ==
  /\ api.pc = "root"
  /\ kind # "429" => h = NoHeader
  /\ LET a1 == Received(api, Response("root", kind,
                                      IF kind = "page" THEN <<RootId>> ELSE <<>>, FALSE, h))
     IN  api' = IF kind = "page"
                  THEN Return([a1 EXCEPT !.allTweets = <<RootId>> \o @])
                ELSE IF kind = "429"
                  THEN Return([a1 EXCEPT !.err = [kind |-> "rate_limited",
                                                  waitSec |-> WaitSec(h)]])
                ELSE IF kind = "http"
                  THEN Return([a1 EXCEPT !.err = [kind |-> "http_error", waitSec |-> 0]])
                ELSE Return(a1)
  /\ UNCHANGED nonApiVars

\* api.profile: the user lookup returned a 2xx body; with data the rate delay
\* and the search follow, without it "not found" is thrown
ProfileUser(found) ==
  /\ api.pc = "user"
  /\ LET a1 == Received(api, Response("user", IF found THEN "page" ELSE "errorObject",
                                      <<>>, FALSE, NoHeader))
     IN  api' = IF found
                  THEN [a1 EXCEPT !.log = Append(@, "sleep"), !.pc = "loop"]
                  ELSE Throw(a1, [kind |-> "not_found", waitSec |-> 0])
  /\ UNCHANGED nonApiVars

NextApi ==
  \/ \E p \in ApiPagesArgs : SearchCall(p)
  \/ \E p \in ApiPagesArgs : ListCall(p)
  \/ \E p \in ApiPagesArgs : ThreadCall(p)
  \/ ProfileCall
  \/ \E k \in {"page", "errorObject"}, b \in PageBodies, t \in BOOLEAN : LoopPage(k, b, t)
  \/ \E h \in ResetHeaders : ApiGetRateLimited(h)
  \/ ApiGetHttpError
  \/ \E k \in RootKinds, h \in ResetHeaders : RootLookup(k, h)
  \/ \E f \in BOOLEAN : ProfileUser(f)

SpecApi == Init /\ [][NextApi]_vars

\* ------------------------------------------------------------------------
\* cmdSearch with any value behind --pages, up to its call of api.search
\* ------------------------------------------------------------------------
MaxPagesFlag == 6

\* a JavaScript number that is an integer, and NaN
Num(v) == [nan |-> FALSE, v |-> v]
NaN == [nan |-> TRUE, v |-> 0]

\* what may stand behind --pages: nothing, an integer numeral, other text
PagesFlags ==
  {[kind |-> "absent", n |-> 0], [kind |-> "text", n |-> 0]}
    \cup {[kind |-> "numeral", n |-> v] : v \in (-1)..MaxPagesFlag}

\* parseInt(getOpt("pages") || "1")
ParsePages(flag) ==
  IF flag.kind = "absent" THEN Num(1)
  ELSE IF flag.kind = "numeral" THEN Num(flag.n)
  ELSE NaN

\* Math.min(x, cap)
MathMin(x, cap) == IF x.nan THEN NaN ELSE Num(Min(x.v, cap))

\* let pages = Math.min(parseInt(...), 5); if (quick) pages = 1
SearchPages(flag, quick) ==
  IF quick THEN Num(1) ELSE MathMin(ParsePages(flag), SearchPagesCap)

\* opts.pages || 1 on a number
PagesOrOne(x) == IF x.nan \/ x.v = 0 THEN SearchPagesDefault ELSE x.v

\* usage.checkBudget(pages * 100) returns null; NaN compares false, and a
\* negative estimate is taken on a ledger without spend only
Admits(b, x) ==
  IF x.nan THEN TRUE
  ELSE IF x.v < 0
    THEN b.localTracking.todayCost = BigZero /\ b.localTracking.rollingCost = BigZero
  ELSE BudgetBlock(b, x.v * SearchPageSize) = "allowed"

\* cmdSearch from its flags to the call of api.search, admitted and not cached;
\* api.search leaves its loop at once when 0 < pages fails
SearchFetch(flag, quick) ==
  /\ CallIdle
  /\ LET x == SearchPages(flag, quick)
         a == [NoCall EXCEPT !.op = "search", !.pages = PagesOrOne(x)]
     IN  /\ Admits(loadBudget(file, Today, defTracking), x)
         /\ cache = <<>>
         /\ ret' = [op |-> "cmdSearch", arg |-> [flag |-> flag, quick |-> quick],
                    result |-> x]
         /\ api' = IF 0 < a.pages THEN [a EXCEPT !.pc = "loop"] ELSE Return(a)
  /\ UNCHANGED <<file, now, defTracking, seen, recLog, nTicks, cli, cache, paid, nCmds,
                 post, pager, procs>>

NextPages ==
  \/ \E f \in PagesFlags, q \in BOOLEAN : SearchFetch(f, q)
  \/ \E k \in {"page", "errorObject"}, b \in PageBodies, t \in BOOLEAN : LoopPage(k, b, t)
  \/ \E h \in ResetHeaders : ApiGetRateLimited(h)
  \/ ApiGetHttpError

SpecPages == Init /\ [][NextPages]_vars

\* ------------------------------------------------------------------------
\* two x-search.ts processes running cmdSearch on one data/budget.json: every
\* readFileSync and writeFileSync is a step of its own
\* ------------------------------------------------------------------------
Procs == {1, 2}

\* the posts api.search may return for a call of p pages
FetchUnits == {0, 40, 100, 200}

Other(i) == 3 - i
Busy(i) == procs[i].pc \notin {"idle", "done"}

\* a process is started with --pages p; alone records that no other process
\* ran while it did
RaceStart(i, p) ==
  /\ ~Busy(i)
  /\ nCmds < MaxCommands
  /\ nCmds' = nCmds + 1
  /\ procs' = [procs EXCEPT
                 ![i] = [NoProc EXCEPT !.pc = "checkBudget", !.pages = p,
                                       !.def = FreshTracking(Today),
                                       !.alone = ~Busy(Other(i))],
                 ![Other(i)] = [@ EXCEPT !.alone = @ /\ ~Busy(Other(i))]]
  /\ UNCHANGED <<file, now, defTracking, ret, seen, recLog, nTicks, cli, cache, paid,
                 api, post, pager>>

\* checkBudget that adds the estimate of a search the other process is running
RaceCheckBudgetReserving(i) ==
  /\ procs[i].pc = "checkBudget"
  /\ LET b == loadBudget(file, Today, procs[i].def)
         held == IF procs[Other(i)].pc \in {"fetch", "load", "save"}
                   THEN procs[Other(i)].pages * SearchPageSize ELSE 0
         r == BudgetBlock(b, procs[i].pages * SearchPageSize + held)
     IN  procs' = [procs EXCEPT ![i] =
                     IF r # "allowed" THEN [@ EXCEPT !.pc = "done"]
                     ELSE [@ EXCEPT !.pc = "fetch", !.admitted = TRUE]]
  /\ UNCHANGED <<file, now, defTracking, ret, seen, recLog, nTicks, cli, cache, paid,
                 nCmds, api, post, pager>>

\* cmdSearch: usage.checkBudget(pages * 100) on the file as it is now
RaceCheckBudget(i) ==
  /\ procs[i].pc = "checkBudget"
  /\ LET b == loadBudget(file, Today, procs[i].def)
         r == BudgetBlock(b, procs[i].pages * SearchPageSize)
     IN  procs' = [procs EXCEPT ![i] =
                     IF r # "allowed" THEN [@ EXCEPT !.pc = "done"]
                     ELSE [@ EXCEPT !.pc = "fetch", !.admitted = TRUE]]
  /\ UNCHANGED <<file, now, defTracking, ret, seen, recLog, nTicks, cli, cache, paid,
                 nCmds, api, post, pager>>

\* cmdSearch: api.search returned u posts, at most 100 a page
RaceFetch(i, u) ==
  /\ procs[i].pc = "fetch"
  /\ u <= PagesOrDefault(procs[i].pages, SearchPagesDefault) * SearchPageSize
  /\ procs' = [procs EXCEPT ![i] = [@ EXCEPT !.pc = "load", !.units = u]]
  /\ paid' = paid + u
  /\ UNCHANGED <<file, now, defTracking, ret, seen, recLog, nTicks, cli, cache,
                 nCmds, api, post, pager>>

\* recordUsage: const budget = loadBudget()
RaceLoadBudget(i) ==
  /\ procs[i].pc = "load"
  /\ procs' = [procs EXCEPT ![i] =
                 [@ EXCEPT !.pc = "save", !.loaded = loadBudget(file, Today, procs[i].def)]]
  /\ UNCHANGED <<file, now, defTracking, ret, seen, recLog, nTicks, cli, cache, paid,
                 nCmds, api, post, pager>>

\* recordUsage writing what the file holds at the time of the write plus its units
RaceSaveBudgetMerging(i) ==
  /\ procs[i].pc = "save"
  /\ LET nb == RecordedBudget(loadBudget(file, Today, procs[i].def), procs[i].units, Today)
     IN  /\ file' = saveBudget(nb)
         /\ procs' = [procs EXCEPT ![i] = [@ EXCEPT !.pc = "done", !.def = nb.localTracking]]
  /\ UNCHANGED <<now, defTracking, ret, seen, recLog, nTicks, cli, cache, paid,
                 nCmds, api, post, pager>>

\* recordUsage: the counters of the loaded budget are raised, saveBudget(budget)
RaceSaveBudget(i) ==
  /\ procs[i].pc = "save"
  /\ LET nb == RecordedBudget(procs[i].loaded, procs[i].units, Today)
     IN  /\ file' = saveBudget(nb)
         /\ procs' = [procs EXCEPT ![i] = [@ EXCEPT !.pc = "done", !.def = nb.localTracking]]
  /\ UNCHANGED <<now, defTracking, ret, seen, recLog, nTicks, cli, cache, paid,
                 nCmds, api, post, pager>>

\* usage budget set-daily <amount>, run while no search is running
RaceSetDaily(limit) ==
  /\ \A i \in Procs : ~Busy(i)
  /\ nCmds = 0
  /\ SetDaily(TRUE, limit)

NextRace ==
  \/ \E i \in Procs, p \in ApiPagesArgs : RaceStart(i, p)
  \/ \E i \in Procs : RaceCheckBudget(i)
  \/ \E i \in Procs, u \in FetchUnits : RaceFetch(i, u)
  \/ \E i \in Procs : RaceLoadBudget(i)
  \/ \E i \in Procs : RaceSaveBudget(i)
  \/ \E x \in 0..MaxCapUsd : RaceSetDaily(x)

SpecRace == Init /\ [][NextRace]_vars

\* ------------------------------------------------------------------------
\* lib/api.ts search, its page loop with every fetch split into the request
\* leaving and the response arriving
\* ------------------------------------------------------------------------
MaxPagerPages == 4
MaxTokens == 3

\* next_token values of the endpoint; NoToken is a missing or empty one
Tokens == 1..MaxTokens
NoToken == 0

PagerPagesArgs == 0..MaxPagerPages

nonPagerVars ==
  <<file, now, defTracking, ret, seen, recLog, nTicks, cli, cache, paid, nCmds, api,
    post, procs>>

PagerIdle == pager.pc \in {"idle", "done"}

\* search(query, { pages }): nextToken is undefined before the loop
PagerCall(p) ==
  /\ PagerIdle
  /\ pager' = [NoPager EXCEPT !.pc = "request", !.pages = PagesOrDefault(p, SearchPagesDefault)]
  /\ UNCHANGED nonPagerVars

\* a request that never carries a pagination_token
PagerRequestFirstPage ==
  /\ pager.pc = "request"
  /\ pager' = [pager EXCEPT !.pc = "await", !.inFlight = @ + 1,
                            !.events = Append(@, [type |-> "request", token |-> NoToken])]
  /\ UNCHANGED nonPagerVars

\* the url is built with pagination_token=nextToken when there is one, and
\* apiGet(url) sends it
PagerRequest ==
  /\ pager.pc = "request"
  /\ pager' = [pager EXCEPT !.pc = "await", !.inFlight = @ + 1,
                            !.events = Append(@, [type |-> "request",
                                                  token |-> pager.nextToken])]
  /\ UNCHANGED nonPagerVars

\* await apiGet(url) resolves: nextToken = raw.meta?.next_token, the loop
\* breaks without one and ends after the last page
PagerResponse(token) ==
  /\ pager.pc = "await"
  /\ LET g == [pager EXCEPT !.inFlight = @ - 1, !.nextToken = token, !.page = @ + 1,
                            !.events = Append(@, [type |-> "response", token |-> token])]
     IN  pager' = IF token = NoToken \/ ~(g.page < g.pages)
                    THEN [g EXCEPT !.pc = "done"]
                    ELSE [g EXCEPT !.pc = "request"]
  /\ UNCHANGED nonPagerVars

\* await apiGet(url) rejects (429 or another non-2xx): search rejects
PagerFailure ==
  /\ pager.pc = "await"
  /\ pager' = [pager EXCEPT !.pc = "done", !.inFlight = @ - 1,
                            !.events = Append(@, [type |-> "failure", token |-> NoToken])]
  /\ UNCHANGED nonPagerVars

NextPager ==
  \/ \E p \in PagerPagesArgs : PagerCall(p)
  \/ PagerRequest
  \/ \E t \in Tokens \cup {NoToken} : PagerResponse(t)
  \/ PagerFailure

SpecPager == Init /\ [][NextPager]_vars

\* ------------------------------------------------------------------------
\* lib/api.ts sortBy and dedupe, and the sort step of cmdSearch, on tweets
\* given as records of an id and two of the metrics
\* ------------------------------------------------------------------------
MaxTweets == 3
MaxTweetId == 2
MaxMetric == 1

Metrics == {"likes", "impressions"}
SortOpts == Metrics \cup {"recent"}

Tweets ==
  {[id |-> i, metrics |-> [likes |-> l, impressions |-> k]] :
     i \in 1..MaxTweetId, l \in 0..MaxMetric, k \in 0..MaxMetric}

TweetSeqs == UNION {[1..n -> Tweets] : n \in 0..MaxTweets}

nonPostVars ==
  <<file, now, defTracking, ret, seen, recLog, nTicks, cli, cache, paid, nCmds, api,
    pager, procs>>

RECURSIVE Place(_, _, _)
\* the sorted run with t put in: (a, b) => b[m] - a[m] moves t in front of the
\* first record of a smaller metric only
Place(run, t, m) ==
  IF run = <<>> THEN <<t>>
  ELSE IF Head(run).metrics[m] - t.metrics[m] < 0 THEN <<t>> \o run
  ELSE <<Head(run)>> \o Place(Tail(run), t, m)

RECURSIVE SortFrom(_, _, _)
\* Array.prototype.sort over the rest of the copy, run being sorted already
SortFrom(run, rest, m) ==
  IF rest = <<>> THEN run ELSE SortFrom(Place(run, Head(rest), m), Tail(rest), m)

\* the sort with records of an equal metric left in the reverse of their order
sortByUnstable(tweets, metric) ==
  SortFrom(<<>>, [i \in 1..Len(tweets) |-> tweets[Len(tweets) + 1 - i]], metric)

\* sortBy: [...tweets].sort((a, b) => b.metrics[metric] - a.metrics[metric])
sortBy(tweets, metric) == SortFrom(<<>>, tweets, metric)

RECURSIVE FilterUnseen(_, _)
\* tweets.filter with the set seen: a record passes when its id is new
FilterUnseen(tweets, seenIds) ==
  IF tweets = <<>> THEN <<>>
  ELSE IF Head(tweets).id \in seenIds THEN FilterUnseen(Tail(tweets), seenIds)
  ELSE <<Head(tweets)>> \o FilterUnseen(Tail(tweets), seenIds \cup {Head(tweets).id})

\* the filter keeping the last record of every id
dedupeKeepLast(tweets) ==
  LET back == FilterUnseen([i \in 1..Len(tweets) |-> tweets[Len(tweets) + 1 - i]], {})
  IN  [i \in 1..Len(back) |-> back[Len(back) + 1 - i]]

\* dedupe
dedupe(tweets) == FilterUnseen(tweets, {})

\* the array a caller holds before it calls sortBy, dedupe or cmdSearch's sort step
InitPost ==
  /\ file = NoFile
  /\ now = 0
  /\ defTracking = FreshTracking(0)
  /\ ret = [op |-> "start", arg |-> 0, result |-> "none"]
  /\ seen = DEFAULT_BUDGET(FreshTracking(0))
  /\ recLog = <<>>
  /\ nTicks = 0
  /\ cli = NoCommand
  /\ cache = <<>>
  /\ paid = 0
  /\ nCmds = 0
  /\ api = NoCall
  /\ post \in {[NoPost EXCEPT !.given = x, !.input = x] : x \in TweetSeqs}
  /\ pager = NoPager
  /\ procs = NoProcs

\* api.sortBy(tweets, metric): the copy is sorted, the argument stays
SortByCall(metric) ==
  /\ post.op = "none"
  /\ post' = [post EXCEPT !.op = "sortBy", !.arg = metric,
                          !.out = sortBy(post.input, metric)]
  /\ UNCHANGED nonPostVars

\* api.dedupe(tweets), and dedupe of what it returned
DedupeCall ==
  /\ post.op = "none"
  /\ post' = [post EXCEPT !.op = "dedupe", !.out = dedupe(post.input),
                          !.again = dedupe(dedupe(post.input))]
  /\ UNCHANGED nonPostVars

\* cmdSearch: sorted by the metric unless --sort recent, then deduplicated
SearchSortStep(sortOpt) ==
  /\ post.op = "none"
  /\ LET sorted == IF sortOpt # "recent" THEN sortBy(post.input, sortOpt) ELSE post.input
     IN  post' = [post EXCEPT !.op = "cmdSearch", !.arg = sortOpt, !.out = dedupe(sorted)]
  /\ UNCHANGED nonPostVars

NextPost ==
  \/ \E m \in Metrics : SortByCall(m)
  \/ DedupeCall
  \/ \E o \in SortOpts : SearchSortStep(o)

SpecPost == InitPost /\ [][NextPost]_vars

\* ------------------------------------------------------------------------
\* Properties of the ledger
\* ------------------------------------------------------------------------
Tracking == file.data.localTracking

RECURSIVE SumLog(_, _, _)
\* total postReads of the entries of log recorded on days lo..hi
SumLog(log, lo, hi) ==
  IF log = <<>> THEN 0
  ELSE (IF lo <= Head(log)[1] /\ Head(log)[1] <= hi THEN Head(log)[2] ELSE 0)
       + SumLog(Tail(log), lo, hi)

\* C1: in every persisted ledger, todayCost is todayPostReads * 0.005 and
\* rollingCost is rollingPostReads * 0.005.
C1_CostIsReadsTimesPrice ==
  file.st = "ok" =>
    /\ Tracking.todayCost = FMulInt(PostReadPrice, Tracking.todayPostReads)
    /\ Tracking.rollingCost = FMulInt(PostReadPrice, Tracking.rollingPostReads)

\* the denial condition of the contract, on the budget the check loaded
OverCap(b, e) ==
  \/ /\ b.dailyLimitUsd > 0
     /\ FGt(FAdd(b.localTracking.todayCost, FMulInt(PostReadPrice, e)), Usd(b.dailyLimitUsd))
  \/ /\ b.monthlyLimitUsd > 0
     /\ FGt(FAdd(b.localTracking.rollingCost, FMulInt(PostReadPrice, e)), Usd(b.monthlyLimitUsd))

\* C2: checkBudget(e) denies exactly when a nonzero cap would be passed by
\* current cost + e * 0.005; landing exactly on a cap is allowed and a cap of
\* 0 never denies.
C2_AdmitDeniesIffOverCap ==
  ret.op = "checkBudget" =>
    /\ (ret.result # "allowed") <=> OverCap(seen, ret.arg)
    /\ (seen.dailyLimitUsd = 0 /\ seen.monthlyLimitUsd = 0) => ret.result = "allowed"
    /\ ( /\ seen.dailyLimitUsd > 0
         /\ FAdd(seen.localTracking.todayCost, FMulInt(PostReadPrice, ret.arg))
              = Usd(seen.dailyLimitUsd) ) => ret.result # "blocked_daily"

\* the example of the contract: cap 1.00, 150 reads today, admit(60) is denied
C2_Witness ==
  /\ ret.op = "checkBudget" /\ ret.arg = 60 /\ ret.result = "blocked_daily"
  /\ file.st = "ok" /\ file.data.dailyLimitUsd = 1
  /\ Tracking.today = Today /\ Tracking.todayPostReads = 150

LedgerOps == {"recordUsage", "checkBudget", "setDaily", "setMonthly", "reset", "status"}

\* C7: an operation that reads a ledger stored on another day sees today's
\* counters zeroed and the rolling counters as stored; what it then writes is
\* dated today; the stored day never goes back.
C7_LazyRollover ==
  [][ /\ ( /\ file.st = "ok" /\ Tracking.today # Today /\ ret'.op \in LedgerOps ) =>
           /\ seen'.localTracking.today = Today
           /\ seen'.localTracking.todayPostReads = 0
           /\ seen'.localTracking.todayCost = BigZero
           /\ seen'.localTracking.rollingPostReads = Tracking.rollingPostReads
           /\ seen'.localTracking.rollingCost = Tracking.rollingCost
           /\ file' # file => file'.data.localTracking.today = Today
      /\ ( file.st = "ok" /\ file'.st = "ok" ) =>
           file'.data.localTracking.today >= Tracking.today
    ]_vars

\* a check made on a new day saw zeroed counters while the file still holds
\* yesterday's
C7_Witness ==
  /\ ret.op = "checkBudget" /\ file.st = "ok"
  /\ Tracking.today # Today /\ Tracking.todayPostReads > 0
  /\ seen.localTracking.today = Today /\ seen.localTracking.todayPostReads = 0
  /\ seen.localTracking.rollingPostReads = Tracking.rollingPostReads

\* C8: checkBudget leaves the persisted ledger and the in-memory default as
\* they were, whatever it answers, and asked again it answers the same.
C8_AdmitIsPure ==
  [][ ret'.op = "checkBudget" =>
        /\ file' = file
        /\ defTracking' = defTracking
        /\ (ret.op = "checkBudget" /\ ret.arg = ret'.arg) => ret'.result = ret.result
    ]_vars

\* a denying check on a day after the stored one: the rollover it saw is not
\* written back
C8_Witness ==
  /\ ret.op = "checkBudget" /\ ret.result = "blocked_monthly"
  /\ file.st = "ok" /\ Tracking.today # Today /\ Tracking.todayPostReads > 0

\* C9: with a nonzero daily cap recordUsage returns the daily 'exceeded' alert
\* exactly when the new todayCost >= cap, and the daily 'approaching' warning
\* exactly when cap * warnThreshold <= todayCost < cap.
C9_DailyAlert ==
  (ret.op = "recordUsage" /\ file.data.dailyLimitUsd > 0) =>
    LET cap  == Usd(file.data.dailyLimitUsd)
        warn == WarnLevel(file.data.dailyLimitUsd, file.data.warnThreshold)
    IN  /\ ret.result = "daily_exceeded" <=> BigCmp(Tracking.todayCost, cap) >= 0
        /\ ret.result = "daily_warning" <=>
             (BigCmp(Tracking.todayCost, warn) >= 0 /\ BigCmp(Tracking.todayCost, cap) < 0)

\* the example of the contract: record(160) under cap 1.00 lands on the
\* threshold and is 'approaching'
C9_Witness ==
  /\ ret.op = "recordUsage" /\ ret.arg = 160 /\ ret.result = "daily_warning"
  /\ file.data.dailyLimitUsd = 1 /\ Tracking.todayPostReads = 160
  /\ Tracking.todayCost = WarnLevel(1, WarnDefault)

\* C10: whenever the new cost meets or exceeds a nonzero cap, daily or
\* monthly, recordUsage returns an 'exceeded' alert.
C10_ExceededFirst ==
  ( /\ ret.op = "recordUsage"
    /\ \/ (file.data.dailyLimitUsd > 0
            /\ BigCmp(Tracking.todayCost, Usd(file.data.dailyLimitUsd)) >= 0)
       \/ (file.data.monthlyLimitUsd > 0
            /\ BigCmp(Tracking.rollingCost, Usd(file.data.monthlyLimitUsd)) >= 0) )
  => ret.result \in {"daily_exceeded", "monthly_exceeded"}

\* C11: with a nonzero monthly cap and no daily alert applicable, recordUsage
\* returns an 'approaching' warning when monthlyCap * warnThreshold <=
\* rollingCost < monthlyCap; it returns nothing only when neither cap's
\* threshold is met.
C11_MonthlyApproaching ==
  ret.op = "recordUsage" =>
    LET b      == file.data
        dayHit == b.dailyLimitUsd > 0
                    /\ BigCmp(Tracking.todayCost,
                              WarnLevel(b.dailyLimitUsd, b.warnThreshold)) >= 0
        monHit == b.monthlyLimitUsd > 0
                    /\ BigCmp(Tracking.rollingCost,
                              WarnLevel(b.monthlyLimitUsd, b.warnThreshold)) >= 0
        monMax == b.monthlyLimitUsd > 0
                    /\ BigCmp(Tracking.rollingCost, Usd(b.monthlyLimitUsd)) >= 0
    IN  /\ (~dayHit /\ monHit /\ ~monMax) => ret.result = "monthly_warning"
        /\ ret.result = "none" => (~dayHit /\ ~monHit)

\* the configuration in force before an operation: the stored one, or the
\* defaults when there is no readable ledger
PriorConfig == IF file.st = "ok" THEN file.data ELSE DEFAULT_BUDGET(defTracking)

\* C12: reset zeroes todayPostReads, todayCost, rollingPostReads and
\* rollingCost and stamps a new lastReset, leaves dailyLimitUsd,
\* monthlyLimitUsd and warnThreshold as configured, and afterwards checkBudget
\* decides as on a fresh ledger with the same caps.
C12_ResetKeepsCaps ==
  [][ ret'.op = "reset" =>
        /\ file'.st = "ok"
        /\ file'.data.localTracking = FreshTracking(Today)
        /\ file'.data.dailyLimitUsd = PriorConfig.dailyLimitUsd
        /\ file'.data.monthlyLimitUsd = PriorConfig.monthlyLimitUsd
        /\ file'.data.warnThreshold = PriorConfig.warnThreshold
        /\ \A e \in Estimates :
             BudgetBlock(loadBudget(file', Today, defTracking'), e)
               = BudgetBlock([PriorConfig EXCEPT !.localTracking = FreshTracking(Today)], e)
    ]_vars

\* a reset of a ledger that held reads under a daily cap of 1.00
C12_Witness ==
  /\ ret.op = "reset" /\ seen.localTracking.rollingPostReads > 0
  /\ file.st = "ok" /\ file.data.dailyLimitUsd = 1
  /\ Tracking.rollingPostReads = 0 /\ Tracking.rollingCost = BigZero

\* what a cap setter may do to the accounting block t0, giving t1: rolling
\* counters and lastReset kept; today's counters kept, or zeroed by a rollover
TrackingKept(t0, t1) ==
  /\ t1.rollingPostReads = t0.rollingPostReads
  /\ t1.rollingCost = t0.rollingCost
  /\ t1.lastReset = t0.lastReset
  /\ \/ /\ t1.today = t0.today
        /\ t1.todayPostReads = t0.todayPostReads
        /\ t1.todayCost = t0.todayCost
     \/ /\ t0.today # Today
        /\ t1.today = Today /\ t1.todayPostReads = 0 /\ t1.todayCost = BigZero

\* C13: set-daily x with x >= 0 changes only dailyLimitUsd in the persisted
\* ledger and set-monthly x only monthlyLimitUsd: the other cap, warnThreshold,
\* the rolling counters and lastReset stay, today's counters stay unless a day
\* rollover applies; a negative or non-numeric x is refused and the persisted
\* ledger stays as it was.
C13_SetLimitFrame ==
  [][ /\ (ret'.op = "setDaily" /\ ret'.result = "ok") =>
           /\ file'.st = "ok" /\ ret'.arg >= 0
           /\ file'.data.dailyLimitUsd = ret'.arg
           /\ file'.data.monthlyLimitUsd = PriorConfig.monthlyLimitUsd
           /\ file'.data.warnThreshold = PriorConfig.warnThreshold
           /\ TrackingKept(PriorConfig.localTracking, file'.data.localTracking)
      /\ (ret'.op = "setMonthly" /\ ret'.result = "ok") =>
           /\ file'.st = "ok" /\ ret'.arg >= 0
           /\ file'.data.monthlyLimitUsd = ret'.arg
           /\ file'.data.dailyLimitUsd = PriorConfig.dailyLimitUsd
           /\ file'.data.warnThreshold = PriorConfig.warnThreshold
           /\ TrackingKept(PriorConfig.localTracking, file'.data.localTracking)
      /\ ret'.op \in {"setDaily", "setMonthly"} =>
           /\ ret'.arg < 0 => ret'.result = "usage_error"
           /\ ret'.result = "usage_error" => file' = file
    ]_vars

\* a daily cap set on a ledger that holds reads and a monthly cap of 1.00
C13_Witness ==
  /\ ret.op = "setDaily" /\ ret.result = "ok" /\ ret.arg = 1
  /\ file.st = "ok" /\ file.data.dailyLimitUsd = 1 /\ file.data.monthlyLimitUsd = 1
  /\ Tracking.rollingPostReads > 0

\* C20: loadBudget on an absent or unparsable file returns the default
\* ledger - both caps 0, warnThreshold 0.8, every accounting field zero -
\* whatever ledger calls the process made before.
C20_LoadGivesDefaults ==
  (ret.op \in {"status", "checkBudget"} /\ file.st # "ok") =>
    /\ seen.dailyLimitUsd = 0
    /\ seen.monthlyLimitUsd = 0
    /\ seen.warnThreshold = WarnDefault
    /\ seen.localTracking.todayPostReads = 0
    /\ seen.localTracking.todayCost = BigZero
    /\ seen.localTracking.rollingPostReads = 0
    /\ seen.localTracking.rollingCost = BigZero

\* C33: an unparsable ledger file makes the gate fail open: checkBudget allows
\* every request, and the next recordUsage overwrites the file with both caps 0
\* and the accounting of that one record alone.
C33_CorruptLedgerFailsOpen ==
  [][ file.st = "corrupt" =>
        /\ (ret'.op = "checkBudget" /\ ret' # ret) => ret'.result = "allowed"
        /\ (ret'.op = "recordUsage" /\ file'.st = "ok") =>
             /\ file'.data.dailyLimitUsd = 0
             /\ file'.data.monthlyLimitUsd = 0
             /\ file'.data.localTracking.todayPostReads = ret'.arg
             /\ file'.data.localTracking.rollingPostReads = ret'.arg
    ]_vars

\* C34: recordUsage(u) changes the accounting only: the daily cap, the monthly
\* cap, warnThreshold and lastReset of the stored ledger are after the call what
\* they were before, on the same UTC day todayPostReads and rollingPostReads
\* each grow by exactly u, and nothing but a reset lowers rollingPostReads.
C34_RecordFrame ==
  [][ (file.st = "ok" /\ file'.st = "ok") =>
        /\ (ret'.op = "recordUsage" /\ file' # file) =>
             /\ file'.data.dailyLimitUsd = file.data.dailyLimitUsd
             /\ file'.data.monthlyLimitUsd = file.data.monthlyLimitUsd
             /\ file'.data.warnThreshold = file.data.warnThreshold
             /\ file'.data.localTracking.lastReset = Tracking.lastReset
             /\ file'.data.localTracking.rollingPostReads
                  = Tracking.rollingPostReads + ret'.arg
             /\ Tracking.today = Today =>
                  file'.data.localTracking.todayPostReads
                    = Tracking.todayPostReads + ret'.arg
        /\ ret'.op # "reset" =>
             file'.data.localTracking.rollingPostReads >= Tracking.rollingPostReads
    ]_vars

\* a record on a ledger with both caps set and a reset made the day before the
\* default's: caps and lastReset are kept, the counters hold two records
C34_Witness ==
  /\ ret.op = "recordUsage" /\ ret.arg = 150
  /\ file.st = "ok" /\ file.data.dailyLimitUsd = 1 /\ file.data.monthlyLimitUsd = 1
  /\ Tracking.lastReset = 1 /\ Tracking.today = 1
  /\ Tracking.todayPostReads = 190 /\ Tracking.rollingPostReads = 190

\* C21: when saveBudget fails inside recordUsage, set-daily, set-monthly or
\* reset, the caller gets an error: a warning, null or a confirmation is
\* returned only for a change that is in the file, and after an error the file
\* is as it was.
C21_SaveFailureSurfaces ==
  [][ ret'.op \in {"recordUsage", "setDaily", "setMonthly", "reset"} =>
        LET b == loadBudget(file, Today, defTracking)
        IN  /\ ret'.result = "io_error" => file' = file
            /\ (ret'.op = "recordUsage" /\ ret'.result # "io_error") =>
                 /\ file'.st = "ok"
                 /\ file'.data = RecordedBudget(b, ret'.arg, Today)
            /\ (ret'.op = "setDaily" /\ ret'.result # "io_error") =>
                 /\ file'.st = "ok"
                 /\ file'.data = [b EXCEPT !.dailyLimitUsd = ret'.arg]
            /\ (ret'.op = "setMonthly" /\ ret'.result # "io_error") =>
                 /\ file'.st = "ok"
                 /\ file'.data = [b EXCEPT !.monthlyLimitUsd = ret'.arg]
            /\ (ret'.op = "reset" /\ ret'.result # "io_error") =>
                 /\ file'.st = "ok"
                 /\ file'.data = [b EXCEPT !.localTracking = FreshTracking(Today)]
    ]_vars

\* a recordUsage(150) whose write failed, on a ledger that holds 40 reads
C21_Witness ==
  /\ ret.op = "recordUsage" /\ ret.arg = 150 /\ ret.result = "io_error"
  /\ file.st = "ok" /\ Tracking.rollingPostReads = 40

\* C5: right after a recordUsage call the persisted todayPostReads is the sum
\* of the units recorded on the current day, and todayCost that sum * 0.005.
C5_TodayIsSumOfToday ==
  ret.op = "recordUsage" =>
    /\ Tracking.todayPostReads = SumLog(recLog, Today, Today)
    /\ Tracking.todayCost = FMulInt(PostReadPrice, SumLog(recLog, Today, Today))

\* the count half of C5 alone
C5_TodayReadsOnly ==
  ret.op = "recordUsage" => Tracking.todayPostReads = SumLog(recLog, Today, Today)

RECURSIVE CostLog(_, _, _, _)
\* the cost of the entries of log recorded on days lo..hi, each u * 0.005,
\* added to acc in call order
CostLog(log, lo, hi, acc) ==
  IF log = <<>> THEN acc
  ELSE CostLog(Tail(log), lo, hi,
               IF lo <= Head(log)[1] /\ Head(log)[1] <= hi
                 THEN FAdd(acc, FMulInt(PostReadPrice, Head(log)[2]))
                 ELSE acc)

\* C6: right after a recordUsage call the rolling accounting covers exactly
\* the units recorded within the last 30 days: rollingPostReads is their sum
\* and rollingCost their cost (as the product sum * 0.005, or as the costs
\* added one by one).
C6_RollingIsThirtyDays ==
  ret.op = "recordUsage" =>
    LET lo == Today - RollingWindowDays + 1
        w  == SumLog(recLog, lo, Today)
    IN  /\ Tracking.rollingPostReads = w
        /\ \/ Tracking.rollingCost = FMulInt(PostReadPrice, w)
           \/ Tracking.rollingCost = CostLog(recLog, lo, Today, BigZero)

\* ------------------------------------------------------------------------
\* Properties of the commands
\* ------------------------------------------------------------------------
GatedCommands == {"search", "thread", "profile"}

\* C3: search, profile and thread alike issue a remote request only after
\* the budget check has passed, and a blocked command issues none.
C3_CheckedBeforeEveryRequest ==
  cli.cmd \in GatedCommands =>
    /\ cli.sent > 0 => cli.checked
    /\ cli.exit = "blocked" => cli.sent = 0

\* C14: a search served from the cache (an entry for the same signature
\* younger than the TTL asked for) returns the cached records, issues no remote
\* request and records no usage: the budget file is as the command found it.
C14_CacheHitIsFree ==
  [][ (cli' # cli /\ cli'.cmd = "search") =>
        /\ (cli'.cached \/ cli'.pc \in {"checkBudget", "cacheGet"}) =>
             /\ file' = file
             /\ cli'.sent = 0
             /\ paid' = paid
        /\ (cli'.cached /\ ~cli.cached) =>
             /\ CacheHit(cache, cli.pages, IF cli.quick THEN QuickTtl ELSE NormalTtl, now)
             /\ cli'.tweets = cache[cli.pages].n
        /\ (cli'.cached /\ cli'.pc = "done") =>
             /\ cli'.exit = "ok"
             /\ cli'.tweets = cache[cli.pages].n
             /\ cache' = cache
    ]_vars

\* a search that ended on a cache hit, after an earlier one was paid for
C14_Witness ==
  /\ cli.cmd = "search" /\ cli.pc = "done" /\ cli.cached /\ cli.exit = "ok"
  /\ cli.sent = 0 /\ cli.tweets > 0
  /\ file.st = "ok" /\ Tracking.rollingPostReads = cli.tweets

\* C15: when checkBudget denies a search the command ends there, reporting the
\* reason: no cache lookup, no remote request, no cache write and no write of
\* the budget file follow, even when a fresh entry for the same signature is
\* in the cache.
C15_DeniedSearchStops ==
  [][ /\ ( /\ cli' # cli /\ cli'.cmd = "search"
           /\ ret'.op = "checkBudget" /\ ret'.result # "allowed" ) =>
             /\ cli.pc = "checkBudget"
             /\ cli'.pc = "done" /\ cli'.exit = "blocked"
             /\ ret'.result \in {"blocked_daily", "blocked_monthly"}
             /\ cli'.sent = 0 /\ ~cli'.cached /\ cli'.tweets = 0
             /\ file' = file /\ cache' = cache /\ paid' = paid
      /\ ( cli.exit = "blocked" /\ cli' # cli ) =>
             /\ nCmds' = nCmds + 1
             /\ cli'.pc = "checkBudget" /\ cli'.sent = 0
             /\ file' = file /\ cache' = cache /\ paid' = paid
    ]_vars

\* a search denied while a fresh entry for its signature is in the cache
C15_Witness ==
  /\ cli.cmd = "search" /\ cli.pc = "done" /\ cli.exit = "blocked"
  /\ ret.op = "checkBudget" /\ ret.result = "blocked_daily"
  /\ CacheHit(cache, cli.pages, IF cli.quick THEN QuickTtl ELSE NormalTtl, now)
  /\ cli.sent = 0 /\ ~cli.cached

C23_ShorterTtlWins ==
  [][ (cli' # cli /\ cli.cmd = "search" /\ cli.pc = "cacheGet" /\ cli'.cached) =>
        now - cache[cli.pages].at
          < Min(cache[cli.pages].wttl, IF cli.quick THEN QuickTtl ELSE NormalTtl)
    ]_vars

\* C29: on a cache miss the units of the completed fetch are recorded in the
\* ledger before the caller-side filtering, sorting, output and file saving:
\* once those steps are behind a search that fetched, recordUsage has run.
C29_RecordedBeforeOutput ==
  (cli.cmd = "search" /\ ~cli.cached /\ cli.pc = "record") => ret.op = "recordUsage"

\* C31: with searches of --pages 1..5 run one after another by one process at
\* a time and pages of at most 100 posts, a search never takes the stored
\* todayCost above a nonzero daily cap it was within, nor rollingCost above a
\* nonzero monthly cap, as long as the cap is not changed: what an admitted
\* search records is at most what it was admitted for.
C31_SequentialStaysWithinCaps ==
  [][ (file.st = "ok" /\ file'.st = "ok") =>
        /\ ( /\ file.data.dailyLimitUsd > 0
             /\ file'.data.dailyLimitUsd = file.data.dailyLimitUsd
             /\ FGe(Usd(file.data.dailyLimitUsd), Tracking.todayCost) )
             => FGe(Usd(file'.data.dailyLimitUsd), file'.data.localTracking.todayCost)
        /\ ( /\ file.data.monthlyLimitUsd > 0
             /\ file'.data.monthlyLimitUsd = file.data.monthlyLimitUsd
             /\ FGe(Usd(file.data.monthlyLimitUsd), Tracking.rollingCost) )
             => FGe(Usd(file'.data.monthlyLimitUsd), file'.data.localTracking.rollingCost)
        /\ (ret'.op = "recordUsage" /\ ret' # ret /\ cli.pc = "record")
             => ret'.arg <= cli.pages * SearchPageSize
    ]_vars

\* a second search was admitted at half of the daily cap and recorded a full
\* page: the day's cost is exactly the cap
C31_Witness ==
  /\ cli.cmd = "search" /\ cli.pc = "done" /\ cli.exit = "ok" /\ ~cli.cached
  /\ nCmds = 2 /\ ret.op = "recordUsage" /\ ret.arg = SearchPageSize
  /\ file.st = "ok" /\ file.data.dailyLimitUsd = 1 /\ file.data.monthlyLimitUsd = 1
  /\ Tracking.todayPostReads = 2 * SearchPageSize
  /\ Tracking.todayCost = Usd(1)

\* the units the ledger holds, none when there is no ledger yet
RecordedReads == IF file.st = "ok" THEN Tracking.rollingPostReads ELSE 0

\* C4: between commands the ledger's rollingPostReads is the number of posts
\* returned by the remote requests that succeeded.
C4_EveryReadRecordedOnce ==
  cli.pc \in {"idle", "done"} => RecordedReads = paid

\* ------------------------------------------------------------------------
\* Properties of the fetch client
\* ------------------------------------------------------------------------
RECURSIVE Merged(_, _)
\* the bodies of the responses received at position at, one after the other
Merged(resp, at) ==
  IF resp = <<>> THEN <<>>
  ELSE (IF Head(resp).at = at THEN Head(resp).body ELSE <<>>) \o Merged(Tail(resp), at)

PagedCalls == {"search", "list"}

\* C16: a paginated fetch with page budget N >= 1 sends requests until a
\* response has no continuation token or N were sent (exactly min(N, k)
\* requests, k the first page without a token), returns the pages' records in
\* fetch order, and sleeps only between two consecutive requests, never after
\* the last one.
C16_PaginationStops ==
  api.op \in PagedCalls =>
    LET n == Len(api.resp)
    IN  /\ api.pages >= 1
        /\ n <= api.pages
        /\ \A i \in 1..(n - 1) : api.resp[i].token
        /\ \A j \in 1..Len(api.log) : api.log[j] = IF j % 2 = 1 THEN "get" ELSE "sleep"
        /\ api.pc = "loop" => Len(api.log) = 2 * n
        /\ api.pc = "done" => Len(api.log) = 2 * n - 1
        /\ (api.pc = "done" /\ api.result = "ok") =>
             /\ n >= 1
             /\ ~api.resp[n].token \/ n = api.pages
             /\ api.tweets = Merged(api.resp, "loop")

\* the example: a token on page 1 only, two requests, one delay between them
C16_Witness ==
  /\ api.op = "search" /\ api.pc = "done" /\ api.result = "ok" /\ api.pages >= 2
  /\ Len(api.resp) = 2 /\ api.resp[1].token /\ ~api.resp[2].token
  /\ api.log = <<"get", "sleep", "get">>
  /\ api.tweets = <<1, 2, 3>>

\* C17: on HTTP 429 apiGet raises a rate-limited error whose wait hint is
\* max(reset - now, 1) seconds when x-rate-limit-reset is present and 60 when
\* it is not; no request and no sleep follow in that call, and outside the
\* root lookup of thread the call itself fails with that error.
C17_RateLimitReported ==
  \A i \in 1..Len(api.resp) :
    api.resp[i].kind = "429" =>
      LET h == api.resp[i].header
      IN  /\ i = Len(api.resp)
          /\ api.log[Len(api.log)] = "get"
          /\ api.pc = "done"
          /\ api.err.kind = "rate_limited"
          /\ api.err.waitSec = IF ~h.present THEN 60
                               ELSE IF h.value - NowSec > 1 THEN h.value - NowSec
                               ELSE 1
          /\ api.resp[i].at # "root" =>
               (api.result = "rate_limited" /\ api.tweets = <<>>)

\* a search rate limited on its second page, the reset time already reached
C17_Witness ==
  /\ api.op = "search" /\ api.pc = "done" /\ api.result = "rate_limited"
  /\ Len(api.resp) = 2 /\ api.resp[2].kind = "429"
  /\ api.resp[2].header.present /\ api.resp[2].header.value = NowSec
  /\ api.err.waitSec = 1

\* C18: a search one of whose page requests failed (429, another non-2xx, or
\* an error object in the body) ends in an error and returns no list; a
\* returned empty list means every page held zero matches.
C18_FailureIsNotEmpty ==
  (api.op \in PagedCalls /\ api.pc = "done") =>
    /\ (\E i \in 1..Len(api.resp) : api.resp[i].kind # "page") => api.result # "ok"
    /\ (api.result = "ok" /\ api.tweets = <<>>) =>
         \A i \in 1..Len(api.resp) : api.resp[i].kind = "page"

\* C19: thread returns the conversation with the root in front when the root
\* lookup resolves and the conversation alone when that lookup fails or gives
\* nothing; when the conversation search throws, thread throws and no root
\* lookup is made.
C19_ThreadRoot ==
  (api.op = "thread" /\ api.pc = "done") =>
    LET n       == Len(api.resp)
        convErr == \E i \in 1..n : api.resp[i].at = "loop"
                                     /\ api.resp[i].kind \in {"429", "http"}
    IN  IF convErr
          THEN /\ api.result \in {"rate_limited", "http_error"}
               /\ api.tweets = <<>>
               /\ \A i \in 1..n : api.resp[i].at = "loop"
          ELSE /\ api.result = "ok"
               /\ api.resp[n].at = "root"
               /\ \A i \in 1..(n - 1) : api.resp[i].at = "loop"
               /\ api.tweets = (IF api.resp[n].kind = "page" THEN <<RootId>> ELSE <<>>)
                                 \o Merged(api.resp, "loop")

\* a thread whose root resolved, in front of a conversation of two posts
C19_Witness ==
  /\ api.op = "thread" /\ api.pc = "done" /\ api.result = "ok"
  /\ api.resp[Len(api.resp)].at = "root" /\ api.resp[Len(api.resp)].kind = "page"
  /\ api.tweets = <<RootId, 2, 3>>

\* ------------------------------------------------------------------------
\* Properties of sortBy and dedupe
\* ------------------------------------------------------------------------
\* the positions of X that hold the first record of their id
FirstIdx(X) == {i \in 1..Len(X) : \A j \in 1..(i - 1) : X[j].id # X[i].id}

\* the k-th smallest member of the set S of numbers
KthOf(S, k) == CHOOSE i \in S : Cardinality({j \in S : j < i}) = k - 1

\* Y is X cut down to the first record of every id, in the order of X
FirstOccurrences(X, Y) ==
  /\ Len(Y) = Cardinality(FirstIdx(X))
  /\ \A k \in 1..Len(Y) : Y[k] = X[KthOf(FirstIdx(X), k)]

\* the records of X whose metric m is v, in the order of X
WithMetric(X, m, v) == SelectSeq(X, LAMBDA t : t.metrics[m] = v)

\* C24: dedupe keeps exactly the first occurrence of every id: no id twice in
\* the output, every id of the input in it, the input's relative order kept,
\* and dedupe(dedupe(X)) = dedupe(X).
C24_DedupeKeepsFirst ==
  post.op = "dedupe" =>
    /\ \A i, j \in 1..Len(post.out) : post.out[i].id = post.out[j].id => i = j
    /\ {post.input[i].id : i \in 1..Len(post.input)}
         = {post.out[i].id : i \in 1..Len(post.out)}
    /\ FirstOccurrences(post.input, post.out)
    /\ post.again = post.out

\* an id came three times with different metrics and the first record is kept
C24_Witness ==
  /\ post.op = "dedupe" /\ Len(post.input) = 3 /\ Len(post.out) = 1
  /\ post.input[2] # post.input[1] /\ post.input[3] # post.input[1]
  /\ post.out[1] = post.input[1]

\* C25: sortBy returns a permutation of its input in non-increasing order of
\* the chosen metric, records of equal metric in their input order, and leaves
\* the input as it was; with --sort recent cmdSearch applies no sort and the
\* fetch order is kept.
C25_SortIsStableDescending ==
  /\ post.op = "sortBy" =>
       /\ \A t \in Tweets :
            Len(SelectSeq(post.out, LAMBDA x : x = t))
              = Len(SelectSeq(post.given, LAMBDA x : x = t))
       /\ \A i, j \in 1..Len(post.out) :
            i < j => post.out[i].metrics[post.arg] >= post.out[j].metrics[post.arg]
       /\ \A v \in 0..MaxMetric :
            WithMetric(post.out, post.arg, v) = WithMetric(post.given, post.arg, v)
       /\ post.input = post.given
  /\ (post.op = "cmdSearch" /\ post.arg = "recent") =>
       FirstOccurrences(post.given, post.out)

\* two records with equal likes and different ids moved behind a third, in
\* their input order
C25_Witness ==
  /\ post.op = "sortBy" /\ post.arg = "likes" /\ Len(post.given) = 3
  /\ post.given[1].metrics.likes = 0 /\ post.given[2].metrics.likes = 0
  /\ post.given[3].metrics.likes = 1
  /\ post.given[1].id # post.given[2].id
  /\ post.out = <<post.given[3], post.given[1], post.given[2]>>

\* ------------------------------------------------------------------------
\* Properties of the --pages flag
\* ------------------------------------------------------------------------
\* the requests a call of lib/api.ts has sent
Gets(a) == Len(SelectSeq(a.log, LAMBDA e : e = "get"))

\* C26: whatever stands behind --pages, a search that misses the cache sends
\* between 1 and 5 page requests, and exactly 1 in quick mode.
C26_PageRequestsInRange ==
  (ret.op = "cmdSearch" /\ api.op = "search" /\ api.pc = "done") =>
    /\ Gets(api) \in 1..SearchPagesCap
    /\ ret.arg.quick => Gets(api) = 1

\* C32: whatever stands behind --pages, the estimate given to checkBudget,
\* pages * 100, is at least the posts the fetch can return, 100 for each page
\* request sent: no search fetches more pages than it was admitted for (an
\* estimate below 0 or NaN admits no page).
C32_EstimateCoversFetch ==
  (ret.op = "cmdSearch" /\ api.op = "search") =>
    IF ret.result.nan THEN Gets(api) = 0
    ELSE Max(ret.result.v, 0) * SearchPageSize >= Gets(api) * SearchPageSize

\* ------------------------------------------------------------------------
\* Properties of two processes on one ledger
\* ------------------------------------------------------------------------
Quiet == \A i \in Procs : ~Busy(i)

\* C27: admission is a gate before the fetch only: a search is admitted exactly
\* when the ledger as stored at the time of its check, plus its own estimate,
\* stays within the caps, and nothing after the check stops it; so executions
\* exist in which every search was admitted and the recorded todayCost ends
\* above a nonzero daily cap.
C27_AdmissionIsPreFlight ==
  [][ \A i \in Procs :
        /\ (procs[i].pc = "checkBudget" /\ procs'[i].pc # procs[i].pc) =>
             LET b == loadBudget(file, Today, procs[i].def)
             IN  /\ procs'[i].admitted <=> ~OverCap(b, procs[i].pages * SearchPageSize)
                 /\ procs'[i].admitted <=> procs'[i].pc = "fetch"
        /\ (procs[i].pc \in {"fetch", "load", "save"} /\ procs'[i].pc # procs[i].pc) =>
             /\ procs'[i].admitted
             /\ procs'[i].pc = IF procs[i].pc = "fetch" THEN "load"
                               ELSE IF procs[i].pc = "load" THEN "save" ELSE "done"
    ]_vars

\* two searches were checked against the same ledger before either recorded,
\* both were admitted, and the recorded cost of the day is above the cap
C27_Witness ==
  /\ Quiet /\ nCmds = 2
  /\ \A i \in Procs : procs[i].admitted /\ ~procs[i].alone /\ procs[i].pages >= 1
  /\ file.st = "ok" /\ file.data.dailyLimitUsd > 0
  /\ Tracking.todayPostReads = paid
  /\ FGt(Tracking.todayCost, Usd(file.data.dailyLimitUsd))

\* C28: recordUsage is a read-modify-write without a lock: the ledger stored is
\* the last writer's, built on what that writer loaded, so units of the other
\* process can be lost and rollingPostReads end below the sum of what was
\* recorded; when one process runs at a time nothing is lost.
C28_LastWriterWins ==
  /\ [][ \A i \in Procs :
           (procs[i].pc = "save" /\ procs'[i].pc # procs[i].pc) =>
             /\ file'.st = "ok"
             /\ file'.data = RecordedBudget(procs[i].loaded, procs[i].units, Today)
       ]_vars
  /\ [](file.st = "ok" => Tracking.rollingPostReads <= paid)
  /\ []((Quiet /\ paid > 0 /\ \A i \in Procs : procs[i].alone) =>
          (file.st = "ok" /\ Tracking.rollingPostReads = paid))

\* both processes loaded the ledger before either saved: the units of one of
\* them are missing from the stored counters
C28_Witness ==
  /\ Quiet /\ nCmds = 2
  /\ \A i \in Procs : procs[i].units > 0
  /\ file.st = "ok"
  /\ Tracking.rollingPostReads < paid
  /\ \E i \in Procs : Tracking.rollingPostReads = procs[i].units

\* ------------------------------------------------------------------------
\* Properties of the page loop's requests
\* ------------------------------------------------------------------------
\* C30: pagination is strictly sequential: the request for page k+1 leaves only
\* after the response of page k has arrived and carries exactly the token that
\* response returned, the first request carries none, and at most one request
\* is in flight at any time.
C30_PaginationIsSequential ==
  LET e == pager.events
  IN  /\ pager.inFlight \in {0, 1}
      /\ pager.inFlight = 1 <=> (e # <<>> /\ e[Len(e)].type = "request")
      /\ \A k \in 1..Len(e) :
           e[k].type = "request" =>
             IF k = 1 THEN e[k].token = NoToken
             ELSE /\ e[k - 1].type = "response"
                  /\ e[k - 1].token # NoToken
                  /\ e[k].token = e[k - 1].token

\* a third request left with the token of the second response, which is not
\* the token of the first
C30_Witness ==
  /\ Len(pager.events) >= 5
  /\ pager.events[5].type = "request" /\ pager.events[5].token = pager.events[4].token
  /\ pager.events[4].token # pager.events[2].token
  /\ pager.inFlight = 1

====
